---- MODULE Spec2Model ----
(***************************************************************************)
(* Model of the superscalar-cpu tool chain:                                *)
(*   - decoder/decoder.py: decode() and the ROM generation loop            *)
(*   - assembler/assembler.py: Resolver, Layouter, Evaluator,              *)
(*     InstructionEncoder, convert_program_to_bytes and the main pipeline  *)
(* Optional values (Python None) are sequences: << >> is None, <<v>> is v. *)
(* Label names are sequences of one-character strings.                     *)
(***************************************************************************)
EXTENDS Integers, Sequences, FiniteSets, TLC

VARIABLES
    \* decoder.py
    inst,           \* loop variable of the ROM generation loop
    rom_lo,         \* first offset of the slice of the ROMs that is tracked
    rom0_bytes,     \* rom0_bytes[rom_lo .. rom_hi-1]
    rom1_bytes,     \* rom1_bytes[rom_lo .. rom_hi-1]
    rom_pc,         \* "loop" | "done" (the loop is over, before the first
                    \* write_rom) | "write1" (before the second write_rom)
                    \* | "end" | "failed" (AssertionError in pack)
    rom_files,      \* contents of rom0.bin and rom1.bin on disk (optional)
    rom_writes,     \* names opened for writing by the running script
    rom_runs,       \* runs of the script that have ended before this one
    \* assembler.py
    program,        \* parser.program: sequence of Instruction records
    phase,          \* position of the main pipeline
    index,          \* loop position of the running pass (0-based, as enumerate)
    labels,         \* Resolver.labels: name -> program index of the definition
    relative_labels,\* Resolver.relative_labels: name -> list of program indices
    current_address,\* Layouter.current_address
    output_size,    \* args.size (optional)
    binary,         \* result of convert_program_to_bytes (optional)
    outfile,        \* contents written to args.output (optional)
    failure,        \* the error() call that ended the run (optional)
    decoded,        \* hardware lookup of an encoded word (optional)
    input_file,     \* the text of the input file (args.inputs)
    current_contents, \* AssemblyParser.current_contents (optional text)
    current_input,  \* AssemblyParser.current_input (optional text)
    printed,        \* the text printed for --print-assembly (optional)
    previous        \* what an earlier run on the same input produced

vars == <<inst, rom_lo, rom0_bytes, rom1_bytes, rom_pc, rom_files, rom_writes,
          program, phase, index, labels, relative_labels, current_address,
          output_size, binary, outfile, failure, decoded, input_file,
          current_contents, current_input, printed, previous>>

decoderVars == <<inst, rom_lo, rom0_bytes, rom1_bytes, rom_pc, rom_files,
                 rom_writes, rom_runs>>

\* the parser's text buffers, the printed listing and the earlier run
textVars == <<input_file, current_contents, current_input, printed, previous>>

assemblerVars == <<program, phase, index, labels, relative_labels,
                   current_address, output_size, binary, outfile, failure,
                   decoded, textVars>>

None == << >>

Some(v) == <<v>>

IsNone(o) == o = << >>

Get(o) == o[1]

Min(a, b) == IF a <= b THEN a ELSE b

Pow2(n) == 2 ^ n

\* a | b on non-negative integers
RECURSIVE BitOr(_, _)
BitOr(a, b) ==
    IF a = 0 THEN b
    ELSE IF b = 0 THEN a
    ELSE (IF (a % 2 = 1) \/ (b % 2 = 1) THEN 1 ELSE 0)
         + 2 * BitOr(a \div 2, b \div 2)

(***************************************************************************)
(* decoder/decoder.py                                                      *)
(***************************************************************************)

\* number of ROM offsets tracked by one run of the generation loop
RomWindow == 16

RomSize == 65536

unpack(value, offset, length) ==
    (value \div Pow2(offset)) % Pow2(length)

\* the assertions of pack()
packAsserts(value, offset, length) ==
    /\ offset >= 0
    /\ length >= 0
    /\ offset + length <= 16
    /\ value >= 0
    /\ value < Pow2(length)

pack(value, offset, length) ==
    (value % Pow2(length)) * Pow2(offset)

RdMode == [Unused |-> 3, R |-> 2, W |-> 1, RW |-> 0]

RsMode == [R8 |-> 0, R16 |-> 1, Imm8 |-> 2, Imm4 |-> 3]

FlagsMode == [Unused |-> 3, R |-> 2, W |-> 1, RW |-> 0]

PcMode == [Step |-> 0, RelJump |-> 1, AbsJump |-> 2, Reserved |-> 3]

FU == [Move |-> 0, ALU |-> 1]

ALUOp == [ADD |-> 0, ADDC |-> 1, SUB |-> 2, SUBC |-> 3, NOT |-> 4, NEG |-> 5,
          SHLL |-> 6, SHLC |-> 7, SHRL |-> 8, SHRC |-> 9, SHRA |-> 10,
          FSWAP |-> 12, AND |-> 13, OR |-> 14, XOR |-> 15, CMV |-> 16]

\* Decoded(): the dataclass defaults
Decoded ==
    [rd |-> RdMode.Unused, rs |-> RsMode.Imm4, flags |-> FlagsMode.Unused,
     pc |-> PcMode.Step, fuid |-> FU.Move, fuop |-> 0]

alu_unary(op, flags, rd) ==
    [Decoded EXCEPT !.rd = rd, !.flags = flags, !.fuid = FU.ALU, !.fuop = op]

alu_binary(op, flags, rd, rs) ==
    [Decoded EXCEPT !.rd = rd, !.rs = rs, !.flags = flags, !.fuid = FU.ALU,
                    !.fuop = op]

\* faulty variant: the condition is shifted above the operation code
decode_cmv_shifted(cond, rs) ==
    alu_binary(BitOr(ALUOp.CMV, cond * 16), FlagsMode.R, RdMode.RW, rs)

\* the decode of cmv / cldi: ALUOp.CMV | cond
decode_cmv(cond, rs) ==
    alu_binary(BitOr(ALUOp.CMV, cond), FlagsMode.R, RdMode.RW, rs)

\* faulty variant: the rd nibble of a relative jump is not tested
is_jreli_any_rd(func0, func2) == func0 = 9

\* the test `func0 == 9 and func2 == 0` of j / jreli
is_jreli(func0, func2) == func0 = 9 /\ func2 = 0

decode(w) ==
    LET func0 == unpack(w, 0, 4)
        func1 == unpack(w, 12, 4)
        func2 == unpack(w, 4, 4)
        func3 == unpack(w, 8, 4)
    IN
    \* basic instructions
    IF func0 = 0 /\ w = 0 THEN Decoded
    ELSE IF func0 = 0 /\ func1 = 1 THEN
        [Decoded EXCEPT !.rd = RdMode.W, !.rs = RsMode.R8, !.fuid = FU.Move]
    ELSE IF func0 = 0 /\ func1 = 2 /\ func2 = 0 THEN
        [Decoded EXCEPT !.rs = RsMode.R8, !.pc = PcMode.RelJump]
    ELSE IF func0 = 0 /\ func1 = 3 /\ func2 = 0 THEN
        [Decoded EXCEPT !.rs = RsMode.R16, !.pc = PcMode.AbsJump]
    \* ALU unary
    ELSE IF func0 = 1 /\ func1 = 0 /\ func3 = 0 THEN
        alu_unary(ALUOp.NOT, FlagsMode.W, RdMode.RW)
    ELSE IF func0 = 1 /\ func1 = 0 /\ func3 = 1 THEN
        alu_unary(ALUOp.NEG, FlagsMode.W, RdMode.RW)
    ELSE IF func0 = 1 /\ func1 = 0 /\ func3 = 2 THEN
        alu_unary(ALUOp.SHLL, FlagsMode.W, RdMode.RW)
    ELSE IF func0 = 1 /\ func1 = 0 /\ func3 = 3 THEN
        alu_unary(ALUOp.SHLC, FlagsMode.RW, RdMode.RW)
    ELSE IF func0 = 1 /\ func1 = 0 /\ func3 = 4 THEN
        alu_unary(ALUOp.SHRL, FlagsMode.W, RdMode.RW)
    ELSE IF func0 = 1 /\ func1 = 0 /\ func3 = 5 THEN
        alu_unary(ALUOp.SHRC, FlagsMode.RW, RdMode.RW)
    ELSE IF func0 = 1 /\ func1 = 0 /\ func3 = 6 THEN
        alu_unary(ALUOp.SHRA, FlagsMode.W, RdMode.RW)
    ELSE IF func0 = 1 /\ func1 = 0 /\ func3 = 7 THEN
        alu_unary(ALUOp.FSWAP, FlagsMode.RW, RdMode.RW)
    ELSE IF func0 = 1 /\ func1 = 0 /\ func3 = 8 THEN
        alu_unary(ALUOp.FSWAP, FlagsMode.R, RdMode.W)
    ELSE IF func0 = 1 /\ func1 = 0 /\ func3 = 9 THEN
        alu_unary(ALUOp.FSWAP, FlagsMode.W, RdMode.R)
    \* ALU binary
    ELSE IF func0 = 1 /\ func1 = 1 THEN
        alu_binary(ALUOp.ADD, FlagsMode.W, RdMode.RW, RsMode.R8)
    ELSE IF func0 = 1 /\ func1 = 2 THEN
        alu_binary(ALUOp.ADDC, FlagsMode.RW, RdMode.RW, RsMode.R8)
    ELSE IF func0 = 1 /\ func1 = 3 THEN
        alu_binary(ALUOp.SUB, FlagsMode.W, RdMode.RW, RsMode.R8)
    ELSE IF func0 = 1 /\ func1 = 4 THEN
        alu_binary(ALUOp.SUBC, FlagsMode.RW, RdMode.RW, RsMode.R8)
    ELSE IF func0 = 1 /\ func1 = 5 THEN
        alu_binary(ALUOp.AND, FlagsMode.W, RdMode.RW, RsMode.R8)
    ELSE IF func0 = 1 /\ func1 = 6 THEN
        alu_binary(ALUOp.OR, FlagsMode.W, RdMode.RW, RsMode.R8)
    ELSE IF func0 = 1 /\ func1 = 7 THEN
        alu_binary(ALUOp.XOR, FlagsMode.W, RdMode.RW, RsMode.R8)
    ELSE IF func0 = 1 /\ func1 = 8 THEN
        alu_binary(ALUOp.SUB, FlagsMode.W, RdMode.R, RsMode.R8)
    ELSE IF func0 = 1 /\ func1 = 9 THEN
        alu_binary(ALUOp.AND, FlagsMode.W, RdMode.R, RsMode.R8)
    ELSE IF func0 = 1 /\ func1 = 10 THEN
        alu_binary(ALUOp.ADDC, FlagsMode.RW, RdMode.RW, RsMode.Imm4)
    ELSE IF func0 = 1 /\ func1 = 11 THEN
        alu_binary(ALUOp.XOR, FlagsMode.W, RdMode.RW, RsMode.Imm4)
    ELSE IF func0 = 1 /\ func1 = 12 THEN
        alu_binary(ALUOp.SUB, FlagsMode.W, RdMode.R, RsMode.Imm4)
    \* cmv, cldi: the condition is in bits 12..15
    ELSE IF func0 = 2 THEN decode_cmv(func1, RsMode.R8)
    ELSE IF func0 = 3 THEN decode_cmv(func1, RsMode.Imm4)
    \* 8 bit immediates
    ELSE IF func0 = 8 THEN
        [Decoded EXCEPT !.rd = RdMode.W, !.rs = RsMode.Imm8, !.fuid = FU.Move]
    ELSE IF is_jreli(func0, func2) THEN
        [Decoded EXCEPT !.rs = RsMode.Imm8, !.pc = PcMode.RelJump]
    ELSE IF func0 = 12 THEN
        alu_binary(ALUOp.ADD, FlagsMode.W, RdMode.RW, RsMode.Imm8)
    ELSE IF func0 = 13 THEN
        alu_binary(ALUOp.AND, FlagsMode.W, RdMode.RW, RsMode.Imm8)
    ELSE IF func0 = 14 THEN
        alu_binary(ALUOp.OR, FlagsMode.W, RdMode.RW, RsMode.Imm8)
    ELSE IF func0 = 15 THEN
        alu_binary(ALUOp.AND, FlagsMode.W, RdMode.R, RsMode.Imm8)
    \* unknown instruction
    ELSE [Decoded EXCEPT !.pc = PcMode.Reserved]

rom_hi == Min(rom_lo + RomWindow, RomSize)

\* faulty variant: the pc mode is packed at the offset of the flags mode
rom0_byte_pc_at_4(old, d) ==
    BitOr(BitOr(BitOr(BitOr(old, pack(d.rd, 0, 2)), pack(d.rs, 2, 2)),
                pack(d.flags, 4, 2)), pack(d.pc, 4, 2))

\* the six `rom_bytes[inst] |= pack(...)` statements of one iteration
rom0_byte(old, d) ==
    BitOr(BitOr(BitOr(BitOr(old, pack(d.rd, 0, 2)), pack(d.rs, 2, 2)),
                pack(d.flags, 4, 2)), pack(d.pc, 6, 2))

rom1_byte(old, d) ==
    BitOr(BitOr(old, pack(d.fuop, 0, 6)), pack(d.fuid, 6, 2))

rom_asserts(d) ==
    /\ packAsserts(d.rd, 0, 2)
    /\ packAsserts(d.rs, 2, 2)
    /\ packAsserts(d.flags, 4, 2)
    /\ packAsserts(d.pc, 6, 2)
    /\ packAsserts(d.fuop, 0, 6)
    /\ packAsserts(d.fuid, 6, 2)

AssemblerIdle ==
    /\ program = << >>
    /\ phase = "idle"
    /\ index = 0
    /\ labels = << >>
    /\ relative_labels = << >>
    /\ current_address = 0
    /\ output_size = None
    /\ binary = None
    /\ outfile = None
    /\ failure = None
    /\ decoded = None
    /\ input_file = << >>
    /\ current_contents = None
    /\ current_input = None
    /\ printed = None
    /\ previous = None

\* rom0_bytes = bytearray(2**16), rom1_bytes = bytearray(2**16); the loop is
\* followed over the slice rom_lo .. rom_hi-1 of the 65536 iterations
RomInit ==
    /\ rom_lo \in {k * RomWindow : k \in 0 .. ((RomSize - 1) \div RomWindow)}
    /\ inst = rom_lo
    /\ rom0_bytes = [n \in rom_lo .. (rom_hi - 1) |-> 0]
    /\ rom1_bytes = [n \in rom_lo .. (rom_hi - 1) |-> 0]
    /\ rom_pc = "loop"
    /\ rom_files = [rom0 |-> None, rom1 |-> None]
    /\ rom_writes = << >>
    /\ rom_runs = 0
    /\ AssemblerIdle

\* one iteration of `for inst in range(2**16)`; a failing assertion of pack
\* or a byte outside range(256) ends the script
RomIteration ==
    /\ rom_pc = "loop"
    /\ inst < rom_hi
    /\ LET d == decode(inst) IN
       IF /\ rom_asserts(d)
          /\ rom0_byte(rom0_bytes[inst], d) < 256
          /\ rom1_byte(rom1_bytes[inst], d) < 256
       THEN /\ rom0_bytes' = [rom0_bytes EXCEPT ![inst] = rom0_byte(@, d)]
            /\ rom1_bytes' = [rom1_bytes EXCEPT ![inst] = rom1_byte(@, d)]
            /\ inst' = inst + 1
            /\ rom_pc' = "loop"
       ELSE /\ rom_pc' = "failed"
            /\ UNCHANGED <<inst, rom0_bytes, rom1_bytes>>
    /\ UNCHANGED <<rom_lo, rom_files, rom_writes, rom_runs>>
    /\ UNCHANGED assemblerVars

\* the range is exhausted
RomLoopEnd ==
    /\ rom_pc = "loop"
    /\ inst = rom_hi
    /\ rom_pc' = "done"
    /\ UNCHANGED <<inst, rom_lo, rom0_bytes, rom1_bytes, rom_files, rom_writes,
                   rom_runs>>
    /\ UNCHANGED assemblerVars

RomNext == RomIteration \/ RomLoopEnd

SpecRom == RomInit /\ [][RomNext]_vars

\* faulty variant: the file is opened for writing whatever it holds
write_rom_always(files, writes, data, name) ==
    [files |-> [files EXCEPT ![name] = Some(data)],
     writes |-> Append(writes, name)]

\* write_rom(data, name): the files on disk and the names opened for writing
\* after the call
write_rom(files, writes, data, name) ==
    IF ~IsNone(files[name]) /\ Get(files[name]) = data
    THEN [files |-> files, writes |-> writes]
    ELSE [files |-> [files EXCEPT ![name] = Some(data)],
          writes |-> Append(writes, name)]

\* write_rom(rom0_bytes, "rom0.bin")
WriteRom0 ==
    /\ rom_pc = "done"
    /\ LET w == write_rom(rom_files, rom_writes, rom0_bytes, "rom0")
       IN  /\ rom_files' = w.files
           /\ rom_writes' = w.writes
    /\ rom_pc' = "write1"
    /\ UNCHANGED <<inst, rom_lo, rom0_bytes, rom1_bytes, rom_runs>>
    /\ UNCHANGED assemblerVars

\* write_rom(rom1_bytes, "rom1.bin")
WriteRom1 ==
    /\ rom_pc = "write1"
    /\ LET w == write_rom(rom_files, rom_writes, rom1_bytes, "rom1")
       IN  /\ rom_files' = w.files
           /\ rom_writes' = w.writes
    /\ rom_pc' = "end"
    /\ UNCHANGED <<inst, rom_lo, rom0_bytes, rom1_bytes, rom_runs>>
    /\ UNCHANGED assemblerVars

\* runs of the generator that follow the first
MaxRuns == 2

\* the script has ended and is run again: the module-level bytearrays are
\* created afresh, the files are as the last run left them
RunGeneratorAgain ==
    /\ rom_pc = "end"
    /\ rom_runs < MaxRuns
    /\ rom_runs' = rom_runs + 1
    /\ inst' = rom_lo
    /\ rom0_bytes' = [n \in rom_lo .. (rom_hi - 1) |-> 0]
    /\ rom1_bytes' = [n \in rom_lo .. (rom_hi - 1) |-> 0]
    /\ rom_pc' = "loop"
    /\ rom_writes' = << >>
    /\ UNCHANGED <<rom_lo, rom_files>>
    /\ UNCHANGED assemblerVars

\* the slice of a ROM the generator produces
generated0 == [n \in rom_lo .. (rom_hi - 1) |-> rom0_byte(0, decode(n))]

generated1 == [n \in rom_lo .. (rom_hi - 1) |-> rom1_byte(0, decode(n))]

\* what a ROM file may hold before the first run: nothing (no file), the
\* generated data, other data of the same length, or no bytes at all
OnDisk(state, data) ==
    CASE state = "absent" -> None
      [] state = "identical" -> Some(data)
      [] state = "stale" -> Some([n \in DOMAIN data |-> 255 - data[n]])
      [] state = "empty" -> Some(<< >>)

FileStates == {"absent", "identical", "stale", "empty"}

RomFilesInit ==
    /\ rom_lo \in {k * RomWindow : k \in 0 .. 7}
    /\ inst = rom_lo
    /\ rom0_bytes = [n \in rom_lo .. (rom_hi - 1) |-> 0]
    /\ rom1_bytes = [n \in rom_lo .. (rom_hi - 1) |-> 0]
    /\ rom_pc = "loop"
    /\ \E s0 \in FileStates, s1 \in FileStates :
        rom_files = [rom0 |-> OnDisk(s0, generated0),
                     rom1 |-> OnDisk(s1, generated1)]
    /\ rom_writes = << >>
    /\ rom_runs = 0
    /\ AssemblerIdle

RomFilesNext ==
    \/ RomIteration
    \/ RomLoopEnd
    \/ WriteRom0
    \/ WriteRom1
    \/ RunGeneratorAgain

SpecRomFiles == RomFilesInit /\ [][RomFilesNext]_vars

(***************************************************************************)
(* assembler/assembler.py: data model                                      *)
(***************************************************************************)

Condition == {"C", "NC", "Z", "NZ", "S", "NS", "O", "NO", "EQ", "NE", "UGE",
              "ULT", "ULE", "UGT", "SLT", "SGE", "SLE", "SGT"}

\* faulty variant: eq and ne get codes of their own
CONDITION_ENCODING_deduplicated ==
    [c \in Condition |->
        CASE c = "C" -> 2 [] c = "NC" -> 3 [] c = "Z" -> 4 [] c = "NZ" -> 5
          [] c = "S" -> 6 [] c = "NS" -> 7 [] c = "O" -> 8 [] c = "NO" -> 9
          [] c = "EQ" -> 0 [] c = "NE" -> 1 [] c = "UGE" -> 2 [] c = "ULT" -> 3
          [] c = "ULE" -> 10 [] c = "UGT" -> 11 [] c = "SLT" -> 12
          [] c = "SGE" -> 13 [] c = "SLE" -> 14 [] c = "SGT" -> 15]

CONDITION_ENCODING ==
    [c \in Condition |->
        CASE c = "C" -> 2 [] c = "NC" -> 3 [] c = "Z" -> 4 [] c = "NZ" -> 5
          [] c = "S" -> 6 [] c = "NS" -> 7 [] c = "O" -> 8 [] c = "NO" -> 9
          [] c = "EQ" -> 4 [] c = "NE" -> 5 [] c = "UGE" -> 2 [] c = "ULT" -> 3
          [] c = "ULE" -> 10 [] c = "UGT" -> 11 [] c = "SLT" -> 12
          [] c = "SGE" -> 13 [] c = "SLE" -> 14 [] c = "SGT" -> 15]

\* Operand(kind, value)
Operand(kind, value) == [kind |-> kind, value |-> value]

\* Offset(name): binding and offset start as None; a binding is the program
\* index of the bound Instruction object
Offset(name) == [name |-> name, binding |-> None, offset |-> None]

\* Instruction(opcode, operands): address and encoding start as None
Instruction(opcode, operands) ==
    [opcode |-> opcode, operands |-> operands, address |-> None,
     encoding |-> None]

Imm(v) == Operand("Imm", v)

Reg(r) == Operand("Reg", r)

RegPair(lo) == Operand("RegPair", lo)

Cond(c) == Operand("Cond", c)

Label(name) == Operand("Label", name)

OffsetOperand(name) == Operand("Offset", Offset(name))

(***************************************************************************)
(* assembler/assembler.py: InstructionEncoder                              *)
(* The encoder state is [encoding, error, written]: self.encoding, the     *)
(* error() call that ended the run, if any, and the <<offset, length>> of   *)
(* every encode_bits call made for the instruction so far, in call order.  *)
(* After error() nothing more executes.                                    *)
(***************************************************************************)

EncoderStart == [encoding |-> Some(0), error |-> None, written |-> << >>]

EncoderError(e, message) == [e EXCEPT !.error = Some(message)]

\* faulty variant: the field is not cleared and the value is not shifted
encode_bits_unshifted(e, offset, length, value) ==
    IF ~IsNone(e.error) THEN e
    ELSE [e EXCEPT !.encoding = Some(BitOr(Get(e.encoding), value)),
                   !.written = Append(@, <<offset, length>>)]

encode_bits(e, offset, length, value) ==
    IF ~IsNone(e.error) THEN e
    ELSE IF ~(/\ offset >= 0
              /\ length >= 0
              /\ offset + length <= 16
              /\ value >= 0
              /\ value < Pow2(length))
    THEN EncoderError(e, "AssertionError")
    ELSE LET old == Get(e.encoding)
             \* self.encoding &= ~mask
             cleared == old - unpack(old, offset, length) * Pow2(offset)
         IN  \* self.encoding |= value << offset
             [e EXCEPT !.encoding = Some(BitOr(cleared, value * Pow2(offset))),
                       !.written = Append(@, <<offset, length>>)]

encode_rd(e, operand) ==
    IF ~IsNone(e.error) THEN e
    ELSE IF operand.kind # "Reg" \/ operand.value < 0 \/ operand.value > 6
    THEN EncoderError(e, "expected rd register operand")
    ELSE encode_bits(e, 4, 4, operand.value + 1)

\* faulty variant: the index is stored as it is
encode_rs_unbiased(e, operand) ==
    IF ~IsNone(e.error) THEN e
    ELSE IF operand.kind # "Reg" \/ operand.value < 0 \/ operand.value > 6
    THEN EncoderError(e, "expected rs register operand")
    ELSE encode_bits(e, 8, 4, operand.value)

encode_rs(e, operand) ==
    IF ~IsNone(e.error) THEN e
    ELSE IF operand.kind # "Reg" \/ operand.value < 0 \/ operand.value > 6
    THEN EncoderError(e, "expected rs register operand")
    ELSE encode_bits(e, 8, 4, operand.value + 1)

encode_rs16(e, operand) ==
    IF ~IsNone(e.error) THEN e
    ELSE IF operand.kind # "RegPair" \/ operand.value < 0 \/ operand.value > 5
    THEN EncoderError(e, "expected rs16 register operand")
    ELSE encode_bits(e, 8, 4, operand.value + 1)

\* faulty variant: the upper bound is inclusive
check_imm_inclusive(operand, lower, upper) ==
    IF operand.kind \notin {"Imm", "Offset"}
    THEN [value |-> None, error |-> Some("expected immediate operand")]
    ELSE LET value == IF operand.kind = "Imm" THEN Some(operand.value)
                      ELSE operand.value.offset
         IN  IF IsNone(value)
             THEN [value |-> None, error |-> Some("TypeError")]
             ELSE IF Get(value) < lower \/ Get(value) > upper
             THEN [value |-> None,
                   error |-> Some("immediate value is out of bounds")]
             ELSE [value |-> value, error |-> None]

\* check_imm: the value of an Imm or evaluated Offset operand, or the error
check_imm(operand, lower, upper) ==
    IF operand.kind \notin {"Imm", "Offset"}
    THEN [value |-> None, error |-> Some("expected immediate operand")]
    ELSE LET value == IF operand.kind = "Imm" THEN Some(operand.value)
                      ELSE operand.value.offset
         IN  IF IsNone(value)
             THEN [value |-> None, error |-> Some("TypeError")]
             ELSE IF Get(value) < lower \/ Get(value) >= upper
             THEN [value |-> None,
                   error |-> Some("immediate value is out of bounds")]
             ELSE [value |-> value, error |-> None]

\* faulty variant: bit 7 of the value is dropped
encode_imm8_seven_bits(e, operand) ==
    IF ~IsNone(e.error) THEN e
    ELSE LET c == check_imm(operand, -128, 256) IN
         IF ~IsNone(c.error) THEN EncoderError(e, Get(c.error))
         ELSE encode_bits(e, 8, 8, Get(c.value) % 128)

encode_imm8(e, operand) ==
    IF ~IsNone(e.error) THEN e
    ELSE LET c == check_imm(operand, -128, 256) IN
         IF ~IsNone(c.error) THEN EncoderError(e, Get(c.error))
         ELSE encode_bits(e, 8, 8, Get(c.value) % 256)

\* faulty variant: the range of the unsigned immediate is applied
encode_simm8_wide(e, operand) ==
    IF ~IsNone(e.error) THEN e
    ELSE LET c == check_imm(operand, -128, 256) IN
         IF ~IsNone(c.error) THEN EncoderError(e, Get(c.error))
         ELSE encode_bits(e, 8, 8, Get(c.value) % 256)

encode_simm8(e, operand) ==
    IF ~IsNone(e.error) THEN e
    ELSE LET c == check_imm(operand, -128, 128) IN
         IF ~IsNone(c.error) THEN EncoderError(e, Get(c.error))
         ELSE encode_bits(e, 8, 8, Get(c.value) % 256)

encode_simm4(e, operand) ==
    IF ~IsNone(e.error) THEN e
    ELSE LET c == check_imm(operand, -8, 8) IN
         IF ~IsNone(c.error) THEN EncoderError(e, Get(c.error))
         ELSE encode_bits(e, 8, 4, Get(c.value) % 16)

\* faulty variant: the condition goes to the top four bits
encode_cond1_high(e, operand) ==
    IF ~IsNone(e.error) THEN e
    ELSE IF operand.kind # "Cond"
    THEN EncoderError(e, "expected cond operand")
    ELSE encode_bits(e, 12, 4, CONDITION_ENCODING[operand.value])

encode_cond1(e, operand) ==
    IF ~IsNone(e.error) THEN e
    ELSE IF operand.kind # "Cond"
    THEN EncoderError(e, "expected cond operand")
    ELSE encode_bits(e, 4, 4, CONDITION_ENCODING[operand.value])

\* faulty variant: the condition goes to the rd field
encode_cond2_low(e, operand) ==
    IF ~IsNone(e.error) THEN e
    ELSE IF operand.kind # "Cond"
    THEN EncoderError(e, "expected cond operand")
    ELSE encode_bits(e, 4, 4, CONDITION_ENCODING[operand.value])

encode_cond2(e, operand) ==
    IF ~IsNone(e.error) THEN e
    ELSE IF operand.kind # "Cond"
    THEN EncoderError(e, "expected cond operand")
    ELSE encode_bits(e, 12, 4, CONDITION_ENCODING[operand.value])

\* faulty variant: a directive keeps the word the encoder starts from
encode_directive_as_zero(e) == e

\* a directive: self.encoding = None
encode_directive(e) == [e EXCEPT !.encoding = None]

\* func0 in bits 0..3, func1 in bits 12..15
func01(e, func0, func1) ==
    encode_bits(encode_bits(e, 0, 4, func0), 12, 4, func1)

\* faulty variant: func3 is written where rd goes
encode_unary_func3_low(e, func0, func1, func3, ops) ==
    encode_rd(encode_bits(func01(e, func0, func1), 4, 4, func3), ops[1])

\* the unary ALU / LCD shape: func0, func1, func3 in bits 8..11, rd
encode_unary(e, func0, func1, func3, ops) ==
    encode_rd(encode_bits(func01(e, func0, func1), 8, 4, func3), ops[1])

\* the binary register shape: func0, func1, rd, rs
encode_binary(e, func0, func1, ops) ==
    encode_rs(encode_rd(func01(e, func0, func1), ops[1]), ops[2])

\* the 8 bit immediate shape: func0, rd, imm8
encode_binary_imm8(e, func0, ops) ==
    encode_imm8(encode_rd(encode_bits(e, 0, 4, func0), ops[1]), ops[2])

\* the 4 bit immediate shape: func0, func1, rd, simm4
encode_binary_simm4(e, func0, func1, ops) ==
    encode_simm4(encode_rd(func01(e, func0, func1), ops[1]), ops[2])

\* nop: self.encode_bits(0, 16, 0x0000)
encode_nop(e) == encode_bits(e, 0, 16, 0)

\* faulty variant: halt is encoded as a jump to the following instruction
encode_halt_as_skip(e) == encode_bits(e, 0, 16, 2 * 256 + 9)

\* halt: self.encode_bits(0, 16, 0x0009)
encode_halt(e) == encode_bits(e, 0, 16, 9)

encode_instruction(e, i) ==
    LET op == i.opcode
        ops == i.operands
    IN
    IF op = "NOP" THEN encode_nop(e)
    ELSE IF op = "LDI" THEN encode_binary_imm8(e, 8, ops)
    ELSE IF op = "MV" THEN encode_binary(e, 0, 1, ops)
    ELSE IF op = "JR" THEN
        encode_rs16(encode_bits(encode_bits(encode_bits(e, 0, 4, 0), 4, 4, 0),
                                12, 4, 3), ops[1])
    ELSE IF op = "J" THEN
        encode_simm8(encode_bits(encode_bits(e, 0, 4, 9), 4, 4, 0), ops[1])
    ELSE IF op = "JRO" THEN
        encode_rs(encode_bits(encode_bits(encode_bits(e, 0, 4, 0), 4, 4, 0),
                              12, 4, 2), ops[1])
    ELSE IF op = "BR" THEN
        encode_rs16(encode_bits(encode_cond1(encode_bits(e, 0, 4, 0), ops[1]),
                                12, 4, 3), ops[2])
    ELSE IF op = "B" THEN
        encode_simm8(encode_cond1(encode_bits(e, 0, 4, 9), ops[1]), ops[2])
    ELSE IF op = "BRO" THEN
        encode_rs(encode_bits(encode_cond1(encode_bits(e, 0, 4, 0), ops[1]),
                              12, 4, 2), ops[2])
    ELSE IF op = "LCDCW" THEN encode_unary(e, 0, 4, 0, ops)
    ELSE IF op = "LCDDW" THEN encode_unary(e, 0, 4, 1, ops)
    ELSE IF op = "LCDCR" THEN encode_unary(e, 0, 4, 2, ops)
    ELSE IF op = "LCDDR" THEN encode_unary(e, 0, 4, 3, ops)
    ELSE IF op = "NOT" THEN encode_unary(e, 1, 0, 0, ops)
    ELSE IF op = "NEG" THEN encode_unary(e, 1, 0, 1, ops)
    ELSE IF op = "ADD" THEN encode_binary(e, 1, 1, ops)
    ELSE IF op = "ADDI" THEN encode_binary_imm8(e, 12, ops)
    ELSE IF op = "SUB" THEN encode_binary(e, 1, 3, ops)
    ELSE IF op = "ADDC" THEN encode_binary(e, 1, 2, ops)
    ELSE IF op = "ADDCI" THEN encode_binary_simm4(e, 1, 10, ops)
    ELSE IF op = "SUBC" THEN encode_binary(e, 1, 4, ops)
    ELSE IF op = "SHLL" THEN encode_unary(e, 1, 0, 2, ops)
    ELSE IF op = "SHLC" THEN encode_unary(e, 1, 0, 3, ops)
    ELSE IF op = "SHRL" THEN encode_unary(e, 1, 0, 4, ops)
    ELSE IF op = "SHRC" THEN encode_unary(e, 1, 0, 5, ops)
    ELSE IF op = "SHRA" THEN encode_unary(e, 1, 0, 6, ops)
    ELSE IF op = "AND" THEN encode_binary(e, 1, 5, ops)
    ELSE IF op = "ANDI" THEN encode_binary_imm8(e, 13, ops)
    ELSE IF op = "OR" THEN encode_binary(e, 1, 6, ops)
    ELSE IF op = "ORI" THEN encode_binary_imm8(e, 14, ops)
    ELSE IF op = "XOR" THEN encode_binary(e, 1, 7, ops)
    ELSE IF op = "XORI" THEN encode_binary_simm4(e, 1, 11, ops)
    ELSE IF op = "CMP" THEN encode_binary(e, 1, 8, ops)
    ELSE IF op = "CMPI" THEN encode_binary_simm4(e, 1, 12, ops)
    ELSE IF op = "TEST" THEN encode_binary(e, 1, 9, ops)
    ELSE IF op = "TESTI" THEN encode_binary_imm8(e, 15, ops)
    ELSE IF op = "FSWAP" THEN encode_unary(e, 1, 0, 7, ops)
    ELSE IF op = "FR" THEN encode_unary(e, 1, 0, 8, ops)
    ELSE IF op = "FW" THEN encode_unary(e, 1, 0, 9, ops)
    ELSE IF op = "CMV" THEN
        encode_rs(encode_rd(encode_cond2(encode_bits(e, 0, 4, 2), ops[1]),
                            ops[2]), ops[3])
    ELSE IF op = "CLDI" THEN
        encode_simm4(encode_rd(encode_cond2(encode_bits(e, 0, 4, 3), ops[1]),
                               ops[2]), ops[3])
    ELSE IF op = "HALT" THEN encode_halt(e)
    ELSE IF op \in {"D_ORG", "D_LABEL"} THEN encode_directive(e)
    ELSE EncoderError(e, "unencodable instruction")


(***************************************************************************)
(* assembler/assembler.py: Resolver                                        *)
(***************************************************************************)

Digits == {"0", "1", "2", "3", "4", "5", "6", "7", "8", "9"}

\* str.isdigit() on a name made of [a-zA-Z0-9_]
isdigit(name) ==
    Len(name) >= 1 /\ \A k \in 1 .. Len(name) : name[k] \in Digits

\* re.match(r'^([0-9]+)([bf])$', name)
IsRelativeReference(name) ==
    /\ Len(name) >= 2
    /\ name[Len(name)] \in {"b", "f"}
    /\ \A k \in 1 .. (Len(name) - 1) : name[k] \in Digits

\* m[1] and m[2] of that match
RelativeLabel(name) == SubSeq(name, 1, Len(name) - 1)

RelativeSuffix(name) == name[Len(name)]

\* dict assignment d[key] = value
DictSet(d, key, value) ==
    [k \in (DOMAIN d) \cup {key} |-> IF k = key THEN value ELSE d[k]]

\* faulty variant: a redefinition silently replaces the earlier definition
register_label_overwrite(labs, rels, idx, i) ==
    LET label == i.operands[1].value IN
    IF isdigit(label)
    THEN [labels |-> labs,
          relative_labels |->
              DictSet(rels, label,
                      Append(IF label \in DOMAIN rels THEN rels[label]
                             ELSE << >>, idx)),
          error |-> None]
    ELSE [labels |-> DictSet(labs, label, idx), relative_labels |-> rels,
          error |-> None]

\* Resolver.register_label(index, inst)
register_label(labs, rels, idx, i) ==
    LET label == i.operands[1].value IN
    IF isdigit(label)
    THEN [labels |-> labs,
          relative_labels |->
              DictSet(rels, label,
                      Append(IF label \in DOMAIN rels THEN rels[label]
                             ELSE << >>, idx)),
          error |-> None]
    ELSE IF label \in DOMAIN labs
    THEN [labels |-> labs, relative_labels |-> rels,
          error |-> Some("label already defined")]
    ELSE [labels |-> DictSet(labs, label, idx), relative_labels |-> rels,
          error |-> None]

\* faulty variant: the forward scan takes the last definition at or after the index
first_forward_last(list, idx) ==
    IF list = << >> THEN None
    ELSE IF list[Len(list)] >= idx THEN Some(list[Len(list)])
    ELSE None

\* for label_index, label_inst in labels: if label_index >= index: bind
RECURSIVE first_forward(_, _)
first_forward(list, idx) ==
    IF list = << >> THEN None
    ELSE IF Head(list) >= idx THEN Some(Head(list))
    ELSE first_forward(Tail(list), idx)

\* for label_index, label_inst in reversed(labels): if label_index <= index
RECURSIVE first_backward(_, _)
first_backward(list, idx) ==
    IF list = << >> THEN None
    ELSE IF list[Len(list)] <= idx THEN Some(list[Len(list)])
    ELSE first_backward(SubSeq(list, 1, Len(list) - 1), idx)

\* the relative branch of resolve_offset: the binding, or None for the error
resolve_relative(rels, idx, name) ==
    LET label == RelativeLabel(name)
        list == IF label \in DOMAIN rels THEN rels[label] ELSE << >>
    IN  IF RelativeSuffix(name) = "f" THEN first_forward(list, idx)
        ELSE first_backward(list, idx)

\* faulty variant: a name is looked up before the label table is complete, so only
\* definitions before the reference are seen
resolve_absolute_defined_before(labs, idx, name) ==
    IF name \in DOMAIN labs /\ labs[name] < idx THEN Some(labs[name]) ELSE None

\* the regular branch of resolve_offset: self.labels.get(offset.name)
resolve_absolute(labs, idx, name) ==
    IF name \in DOMAIN labs THEN Some(labs[name]) ELSE None

\* faulty variant: a reference that finds no label is left unbound and the
\* resolver goes on
resolve_offset_lenient(labs, rels, idx, offset) ==
    IF IsRelativeReference(offset.name)
    THEN [offset |-> [offset EXCEPT
                        !.binding = resolve_relative(rels, idx, offset.name)],
          error |-> None]
    ELSE [offset |-> [offset EXCEPT
                        !.binding = resolve_absolute(labs, idx, offset.name)],
          error |-> None]

\* Resolver.resolve_offset(index, inst, offset)
resolve_offset(labs, rels, idx, offset) ==
    IF IsRelativeReference(offset.name)
    THEN LET b == resolve_relative(rels, idx, offset.name) IN
         IF IsNone(b)
         THEN [offset |-> offset,
               error |-> Some(IF RelativeSuffix(offset.name) = "f"
                              THEN "unknown label after instruction"
                              ELSE "unknown label before instruction")]
         ELSE [offset |-> [offset EXCEPT !.binding = b], error |-> None]
    ELSE LET b == resolve_absolute(labs, idx, offset.name) IN
         IF IsNone(b)
         THEN [offset |-> offset, error |-> Some("unknown label")]
         ELSE [offset |-> [offset EXCEPT !.binding = b], error |-> None]

\* Resolver.resolve_instruction(index, inst): every Offset operand in turn;
\* the first error ends the run
RECURSIVE resolve_operands(_, _, _, _, _)
resolve_operands(labs, rels, idx, ops, k) ==
    IF k > Len(ops) THEN [operands |-> ops, error |-> None]
    ELSE IF ops[k].kind # "Offset"
    THEN resolve_operands(labs, rels, idx, ops, k + 1)
    ELSE LET r == resolve_offset(labs, rels, idx, ops[k].value) IN
         IF ~IsNone(r.error) THEN [operands |-> ops, error |-> r.error]
         ELSE resolve_operands(labs, rels, idx,
                               [ops EXCEPT ![k].value = r.offset], k + 1)

(***************************************************************************)
(* assembler/assembler.py: Layouter, Evaluator                             *)
(***************************************************************************)

\* the width of one instruction: self.current_address += 2
InstructionSize == 2

\* faulty variant: an origin behind the current address is accepted
layout_instruction_rewind(cur, i) ==
    IF i.opcode = "D_ORG"
    THEN [inst |-> [i EXCEPT !.address = Some(i.operands[1].value)],
          current_address |-> i.operands[1].value, error |-> None]
    ELSE IF i.opcode = "D_LABEL"
    THEN [inst |-> [i EXCEPT !.address = Some(cur)],
          current_address |-> cur, error |-> None]
    ELSE [inst |-> [i EXCEPT !.address = Some(cur)],
          current_address |-> cur + InstructionSize, error |-> None]

\* faulty variant: a label definition takes up an instruction slot
layout_instruction_wide_label(cur, i) ==
    IF i.opcode = "D_ORG"
    THEN LET org_address == i.operands[1].value IN
         IF cur > org_address
         THEN [inst |-> i, current_address |-> cur,
               error |-> Some("org directive address is behind current address")]
         ELSE [inst |-> [i EXCEPT !.address = Some(org_address)],
               current_address |-> org_address, error |-> None]
    ELSE [inst |-> [i EXCEPT !.address = Some(cur)],
          current_address |-> cur + InstructionSize, error |-> None]

\* faulty variant: a label definition is given no address
layout_instruction_unplaced_label(cur, i) ==
    IF i.opcode = "D_ORG"
    THEN LET org_address == i.operands[1].value IN
         IF cur > org_address
         THEN [inst |-> i, current_address |-> cur,
               error |-> Some("org directive address is behind current address")]
         ELSE [inst |-> [i EXCEPT !.address = Some(org_address)],
               current_address |-> org_address, error |-> None]
    ELSE IF i.opcode = "D_LABEL"
    THEN [inst |-> i, current_address |-> cur, error |-> None]
    ELSE [inst |-> [i EXCEPT !.address = Some(cur)],
          current_address |-> cur + InstructionSize, error |-> None]

\* Layouter.layout_instruction(inst)
layout_instruction(cur, i) ==
    IF i.opcode = "D_ORG"
    THEN LET org_address == i.operands[1].value IN
         IF cur > org_address
         THEN [inst |-> i, current_address |-> cur,
               error |-> Some("org directive address is behind current address")]
         ELSE [inst |-> [i EXCEPT !.address = Some(org_address)],
               current_address |-> org_address, error |-> None]
    ELSE IF i.opcode = "D_LABEL"
    THEN [inst |-> [i EXCEPT !.address = Some(cur)],
          current_address |-> cur, error |-> None]
    ELSE [inst |-> [i EXCEPT !.address = Some(cur)],
          current_address |-> cur + InstructionSize, error |-> None]

\* faulty variant: the binding is dropped once the displacement is known
RECURSIVE evaluate_operands_unbinding(_, _, _, _)
evaluate_operands_unbinding(prog, i, ops, k) ==
    IF k > Len(ops) THEN [operands |-> ops, error |-> None]
    ELSE IF ops[k].kind # "Offset"
    THEN evaluate_operands_unbinding(prog, i, ops, k + 1)
    ELSE LET off == ops[k].value IN
         IF IsNone(off.binding)
         THEN [operands |-> ops, error |-> Some("AttributeError")]
         ELSE IF IsNone(prog[Get(off.binding) + 1].address) \/ IsNone(i.address)
         THEN [operands |-> ops, error |-> Some("TypeError")]
         ELSE evaluate_operands_unbinding(prog, i,
                [ops EXCEPT ![k].value.offset =
                        Some(Get(prog[Get(off.binding) + 1].address)
                             - Get(i.address)),
                            ![k].value.binding = None],
                k + 1)

\* faulty variant: the displacement is taken from the instruction that follows
RECURSIVE evaluate_operands_from_next(_, _, _, _)
evaluate_operands_from_next(prog, i, ops, k) ==
    IF k > Len(ops) THEN [operands |-> ops, error |-> None]
    ELSE IF ops[k].kind # "Offset"
    THEN evaluate_operands_from_next(prog, i, ops, k + 1)
    ELSE LET off == ops[k].value IN
         IF IsNone(off.binding)
         THEN [operands |-> ops, error |-> Some("AttributeError")]
         ELSE IF IsNone(prog[Get(off.binding) + 1].address) \/ IsNone(i.address)
         THEN [operands |-> ops, error |-> Some("TypeError")]
         ELSE evaluate_operands_from_next(prog, i,
                [ops EXCEPT ![k].value.offset =
                    Some(Get(prog[Get(off.binding) + 1].address)
                         - (Get(i.address) + InstructionSize))],
                k + 1)

\* Evaluator.evaluate_instruction(inst): for every Offset operand
\* offset = binding.address - inst.address; a None on either side raises
RECURSIVE evaluate_operands(_, _, _, _)
evaluate_operands(prog, i, ops, k) ==
    IF k > Len(ops) THEN [operands |-> ops, error |-> None]
    ELSE IF ops[k].kind # "Offset" THEN evaluate_operands(prog, i, ops, k + 1)
    ELSE LET off == ops[k].value IN
         IF IsNone(off.binding)
         THEN [operands |-> ops, error |-> Some("AttributeError")]
         ELSE IF IsNone(prog[Get(off.binding) + 1].address) \/ IsNone(i.address)
         THEN [operands |-> ops, error |-> Some("TypeError")]
         ELSE evaluate_operands(prog, i,
                [ops EXCEPT ![k].value.offset =
                    Some(Get(prog[Get(off.binding) + 1].address)
                         - Get(i.address))],
                k + 1)

(***************************************************************************)
(* assembler/assembler.py: convert_program_to_bytes                        *)
(***************************************************************************)

Zeros(n) == [k \in 1 .. n |-> 0]

\* faulty variant: the high byte of the encoding is stored first
RECURSIVE bytes_loop_big_endian(_, _, _)
bytes_loop_big_endian(prog, k, buffer) ==
    IF k > Len(prog) THEN buffer
    ELSE LET i == prog[k] IN
         IF IsNone(i.encoding) \/ IsNone(i.address)
         THEN bytes_loop_big_endian(prog, k + 1, buffer)
         ELSE LET padded == IF Get(i.address) > Len(buffer)
                            THEN buffer \o Zeros(Get(i.address) - Len(buffer))
                            ELSE buffer
              IN  bytes_loop_big_endian(prog, k + 1,
                      padded \o <<(Get(i.encoding) \div 256) % 256,
                                  Get(i.encoding) % 256>>)

\* the loop of convert_program_to_bytes over program[k ..]
RECURSIVE bytes_loop(_, _, _)
bytes_loop(prog, k, buffer) ==
    IF k > Len(prog) THEN buffer
    ELSE LET i == prog[k] IN
         IF IsNone(i.encoding) \/ IsNone(i.address)
         THEN bytes_loop(prog, k + 1, buffer)
         ELSE LET padded == IF Get(i.address) > Len(buffer)
                            THEN buffer \o Zeros(Get(i.address) - Len(buffer))
                            ELSE buffer
              IN  bytes_loop(prog, k + 1,
                      padded \o <<Get(i.encoding) % 256,
                                  (Get(i.encoding) \div 256) % 256>>)

\* faulty variant: a buffer that fills the configured size is rejected
convert_program_to_bytes_strict(prog, size) ==
    LET buffer == bytes_loop(prog, 1, << >>) IN
    IF IsNone(size) THEN [buffer |-> Some(buffer), error |-> None]
    ELSE IF Len(buffer) >= Get(size)
    THEN [buffer |-> None,
          error |-> Some("binary size exceeds configured output size")]
    ELSE [buffer |-> Some(buffer \o Zeros(Get(size) - Len(buffer))),
          error |-> None]

\* convert_program_to_bytes(program, output_size)
convert_program_to_bytes(prog, size) ==
    LET buffer == bytes_loop(prog, 1, << >>) IN
    IF IsNone(size) THEN [buffer |-> Some(buffer), error |-> None]
    ELSE IF Len(buffer) > Get(size)
    THEN [buffer |-> None,
          error |-> Some("binary size exceeds configured output size")]
    ELSE [buffer |-> Some(buffer \o Zeros(Get(size) - Len(buffer))),
          error |-> None]

(***************************************************************************)
(* assembler/assembler.py: the main pipeline                               *)
(* phase: "register" and "resolve" (the two loops of resolve_program),     *)
(* "layout", "evaluate", "encode", "bytes", "write", "done"; "error" after *)
(* error() or an uncaught exception has ended the process.                 *)
(***************************************************************************)

\* error(message, ...): sys.exit(1)
Exit(pass, message) ==
    /\ phase' = "error"
    /\ failure' = Some([pass |-> pass, message |-> message, index |-> index])

\* the running loop goes on to the next instruction
Continue ==
    /\ index' = index + 1
    /\ UNCHANGED <<phase, failure>>

\* the running loop is exhausted and main calls the next pass
NextPass(next) ==
    /\ phase' = next
    /\ index' = 0
    /\ UNCHANGED failure

\* first loop of Resolver.resolve_program
RegisterLabel ==
    /\ phase = "register"
    /\ IF index = Len(program)
       THEN NextPass("resolve") /\ UNCHANGED <<labels, relative_labels>>
       ELSE IF program[index + 1].opcode # "D_LABEL"
       THEN Continue /\ UNCHANGED <<labels, relative_labels>>
       ELSE LET r == register_label(labels, relative_labels, index,
                                    program[index + 1])
            IN  /\ labels' = r.labels
                /\ relative_labels' = r.relative_labels
                /\ IF IsNone(r.error) THEN Continue
                   ELSE /\ Exit("resolve", Get(r.error))
                        /\ UNCHANGED index
    /\ UNCHANGED <<program, current_address, output_size, binary, outfile,
                   decoded>>
    /\ UNCHANGED textVars
    /\ UNCHANGED decoderVars

\* second loop of Resolver.resolve_program
ResolveInstruction ==
    /\ phase = "resolve"
    /\ IF index = Len(program)
       THEN NextPass("layout") /\ UNCHANGED program
       ELSE LET r == resolve_operands(labels, relative_labels, index,
                                      program[index + 1].operands, 1)
            IN  IF IsNone(r.error)
                THEN /\ program' = [program EXCEPT
                                        ![index + 1].operands = r.operands]
                     /\ Continue
                ELSE /\ Exit("resolve", Get(r.error))
                     /\ UNCHANGED <<program, index>>
    /\ UNCHANGED <<labels, relative_labels, current_address, output_size,
                   binary, outfile, decoded>>
    /\ UNCHANGED textVars
    /\ UNCHANGED decoderVars

\* Layouter.layout_program
LayoutInstruction ==
    /\ phase = "layout"
    /\ IF index = Len(program)
       THEN NextPass("evaluate") /\ UNCHANGED <<program, current_address>>
       ELSE LET r == layout_instruction(current_address, program[index + 1])
            IN  IF IsNone(r.error)
                THEN /\ program' = [program EXCEPT ![index + 1] = r.inst]
                     /\ current_address' = r.current_address
                     /\ Continue
                ELSE /\ Exit("layout", Get(r.error))
                     /\ UNCHANGED <<program, current_address, index>>
    /\ UNCHANGED <<labels, relative_labels, output_size, binary, outfile,
                   decoded>>
    /\ UNCHANGED textVars
    /\ UNCHANGED decoderVars

\* Evaluator.evaluate_program
EvaluateInstruction ==
    /\ phase = "evaluate"
    /\ IF index = Len(program)
       THEN NextPass("encode") /\ UNCHANGED program
       ELSE LET r == evaluate_operands(program, program[index + 1],
                                       program[index + 1].operands, 1)
            IN  IF IsNone(r.error)
                THEN /\ program' = [program EXCEPT
                                        ![index + 1].operands = r.operands]
                     /\ Continue
                ELSE /\ Exit("evaluate", Get(r.error))
                     /\ UNCHANGED <<program, index>>
    /\ UNCHANGED <<labels, relative_labels, current_address, output_size,
                   binary, outfile, decoded>>
    /\ UNCHANGED textVars
    /\ UNCHANGED decoderVars

\* InstructionEncoder.encode_program
EncodeInstruction ==
    /\ phase = "encode"
    /\ IF index = Len(program)
       THEN NextPass("bytes") /\ UNCHANGED program
       ELSE LET e == encode_instruction(EncoderStart, program[index + 1])
            IN  IF IsNone(e.error)
                THEN /\ program' = [program EXCEPT
                                        ![index + 1].encoding = e.encoding]
                     /\ Continue
                ELSE /\ Exit("encode", Get(e.error))
                     /\ UNCHANGED <<program, index>>
    /\ UNCHANGED <<labels, relative_labels, current_address, output_size,
                   binary, outfile, decoded>>
    /\ UNCHANGED textVars
    /\ UNCHANGED decoderVars

\* binary = convert_program_to_bytes(parser.program, args.size)
ConvertProgramToBytes ==
    /\ phase = "bytes"
    /\ LET r == convert_program_to_bytes(program, output_size) IN
       IF IsNone(r.error)
       THEN /\ binary' = r.buffer
            /\ phase' = "write"
            /\ UNCHANGED failure
       ELSE /\ Exit("bytes", Get(r.error))
            /\ UNCHANGED binary
    /\ UNCHANGED <<program, index, labels, relative_labels, current_address,
                   output_size, outfile, decoded>>
    /\ UNCHANGED textVars
    /\ UNCHANGED decoderVars

\* with open(args.output, "wb") as f: f.write(binary)
WriteOutput ==
    /\ phase = "write"
    /\ outfile' = binary
    /\ phase' = "done"
    /\ UNCHANGED <<program, index, labels, relative_labels, current_address,
                   output_size, binary, failure, decoded>>
    /\ UNCHANGED textVars
    /\ UNCHANGED decoderVars

AssemblerNext ==
    \/ RegisterLabel
    \/ ResolveInstruction
    \/ LayoutInstruction
    \/ EvaluateInstruction
    \/ EncodeInstruction
    \/ ConvertProgramToBytes
    \/ WriteOutput

\* parse_file has returned: current_input = None, current_contents = None
ParserIdle ==
    /\ current_contents = None
    /\ current_input = None

\* the ROM generator is not running
DecoderIdle ==
    /\ inst = 0
    /\ rom_lo = 0
    /\ rom0_bytes = << >>
    /\ rom1_bytes = << >>
    /\ rom_pc = "idle"
    /\ rom_files = [rom0 |-> None, rom1 |-> None]
    /\ rom_writes = << >>
    /\ rom_runs = 0

\* the state after parsing: Resolver(), Layouter() freshly constructed
Parsed(progs, sizes) ==
    /\ program \in progs
    /\ output_size \in sizes
    /\ phase = "register"
    /\ index = 0
    /\ labels = << >>
    /\ relative_labels = << >>
    /\ current_address = 0
    /\ binary = None
    /\ outfile = None
    /\ failure = None
    /\ decoded = None
    /\ input_file = << >>
    /\ ParserIdle
    /\ printed = None
    /\ previous = None
    /\ DecoderIdle

\* longest program that is enumerated
MaxProg == 4

ProgramsOver(alphabet) ==
    UNION {[1 .. n -> alphabet] : n \in 0 .. MaxProg}


(***************************************************************************)
(* assembler/assembler.py: AssemblyParser                                  *)
(* A text is a sequence of one-character strings. A regular expression is  *)
(* modelled by an operator that gives the length of m[0] for re.match at   *)
(* the start of the input, 0 when there is no match (none of the parser's  *)
(* expressions matches the empty string).                                  *)
(***************************************************************************)

\* \s
Whitespace == {" ", "\n", "\t"}

LowerCase == {"a", "b", "c", "d", "e", "f", "g", "h", "i", "j", "k", "l", "m",
              "n", "o", "p", "q", "r", "s", "t", "u", "v", "w", "x", "y", "z"}

UpperCase == {"A", "B", "C", "D", "E", "F", "G", "H", "I", "J", "K", "L", "M",
              "N", "O", "P", "Q", "R", "S", "T", "U", "V", "W", "X", "Y", "Z"}

\* \w and [a-zA-Z0-9_]
WordChars == LowerCase \cup UpperCase \cup Digits \cup {"_"}

\* text[n:]
Drop(text, n) == SubSeq(text, n + 1, Len(text))

\* text.startswith(prefix)
StartsWith(text, prefix) ==
    Len(text) >= Len(prefix) /\ SubSeq(text, 1, Len(prefix)) = prefix

\* the length of the longest prefix of text made of characters of class:
\* what a greedy `[class]*` takes
Run(text, class) ==
    IF \A k \in 1 .. Len(text) : text[k] \in class THEN Len(text)
    ELSE (CHOOSE k \in 1 .. Len(text) :
            /\ text[k] \notin class
            /\ \A j \in 1 .. (k - 1) : text[j] \in class) - 1

\* \b after the word character text[n]
WordEnd(text, n) == n = Len(text) \/ text[n + 1] \notin WordChars

\* re.match(r'\s+', input)
match_whitespace(input) == Run(input, Whitespace)

\* re.match(r'(#|//).*[\n$]', input): `.` does not match a newline and
\* [\n$] is a newline or a dollar character, so the match ends at the first
\* newline and, on an unterminated last line, at the last `$` of the line
match_line_comment(input) ==
    LET start == IF StartsWith(input, <<"#">>) THEN 1
                 ELSE IF StartsWith(input, <<"/", "/">>) THEN 2
                 ELSE 0
        newlines == {k \in (start + 1) .. Len(input) : input[k] = "\n"}
        dollars == {k \in (start + 1) .. Len(input) : input[k] = "$"}
    IN  IF start = 0 THEN 0
        ELSE IF newlines # {}
        THEN CHOOSE k \in newlines : \A j \in newlines : k <= j
        ELSE IF dollars # {}
        THEN CHOOSE k \in dollars : \A j \in dollars : k >= j
        ELSE 0

\* re.match(r'(?s)/\*.*\*/', input): `.*` is greedy and matches newlines, so
\* the match ends at the last `*/` of the input
match_block_comment(input) ==
    LET ends == {k \in 4 .. Len(input) :
                    input[k - 1] = "*" /\ input[k] = "/"}
    IN  IF ~StartsWith(input, <<"/", "*">>) \/ ends = {} THEN 0
        ELSE CHOOSE k \in ends : \A j \in ends : k >= j

\* AssemblyParser.skip(): whitespace, line comments and block comments are
\* consumed until none of the three matches
RECURSIVE skip(_)
skip(input) ==
    IF match_whitespace(input) > 0
    THEN skip(Drop(input, match_whitespace(input)))
    ELSE IF match_line_comment(input) > 0
    THEN skip(Drop(input, match_line_comment(input)))
    ELSE IF match_block_comment(input) > 0
    THEN skip(Drop(input, match_block_comment(input)))
    ELSE input

\* consume_regex(regex, skip): the input left after a match of n characters
consume_regex(input, n, doSkip) ==
    IF doSkip THEN skip(Drop(input, n)) ELSE Drop(input, n)

\* re.match(rf'{identifier}\b', input) for an identifier that ends in a word
\* character
match_identifier(input, identifier) ==
    IF StartsWith(input, identifier) /\ WordEnd(input, Len(identifier))
    THEN Len(identifier) ELSE 0

\* consume_identifier(identifier): the input after it, or None
consume_identifier(input, identifier) ==
    IF match_identifier(input, identifier) > 0
    THEN Some(consume_regex(input, Len(identifier), TRUE))
    ELSE None

\* int(c, 16) for one digit character
DigitValue(c) ==
    CASE c = "0" -> 0 [] c = "1" -> 1 [] c = "2" -> 2 [] c = "3" -> 3
      [] c = "4" -> 4 [] c = "5" -> 5 [] c = "6" -> 6 [] c = "7" -> 7
      [] c = "8" -> 8 [] c = "9" -> 9
      [] c \in {"a", "A"} -> 10 [] c \in {"b", "B"} -> 11
      [] c \in {"c", "C"} -> 12 [] c \in {"d", "D"} -> 13
      [] c \in {"e", "E"} -> 14 [] c \in {"f", "F"} -> 15

\* int(text, base) for a non-empty text of digits of the base
RECURSIVE int(_, _)
int(text, base) ==
    IF Len(text) = 0 THEN 0
    ELSE int(SubSeq(text, 1, Len(text) - 1), base) * base
         + DigitValue(text[Len(text)])

\* text.replace("_", "")
remove_underscores(text) == SelectSeq(text, LAMBDA c : c # "_")

\* the digits the integer syntax of each base is made of
DigitClass(base) ==
    IF base = 16
    THEN Digits \cup {"a", "b", "c", "d", "e", "f",
                      "A", "B", "C", "D", "E", "F", "_"}
    ELSE IF base = 8 THEN {"0", "1", "2", "3", "4", "5", "6", "7", "_"}
    ELSE IF base = 2 THEN {"0", "1", "_"}
    ELSE Digits \cup {"_"}

\* the base a prefix letter selects
PrefixBase(c) == IF c = "x" THEN 16 ELSE IF c = "o" THEN 8 ELSE 2

\* cond.name.lower()
lower_name(c) ==
    CASE c = "C" -> <<"c">> [] c = "NC" -> <<"n", "c">>
      [] c = "Z" -> <<"z">> [] c = "NZ" -> <<"n", "z">>
      [] c = "S" -> <<"s">> [] c = "NS" -> <<"n", "s">>
      [] c = "O" -> <<"o">> [] c = "NO" -> <<"n", "o">>
      [] c = "EQ" -> <<"e", "q">> [] c = "NE" -> <<"n", "e">>
      [] c = "UGE" -> <<"u", "g", "e">> [] c = "ULT" -> <<"u", "l", "t">>
      [] c = "ULE" -> <<"u", "l", "e">> [] c = "UGT" -> <<"u", "g", "t">>
      [] c = "SLT" -> <<"s", "l", "t">> [] c = "SGE" -> <<"s", "g", "e">>
      [] c = "SLE" -> <<"s", "l", "e">> [] c = "SGT" -> <<"s", "g", "t">>

\* CONDITION_BY_NAME.get(name): the condition of that lower case name
CONDITION_BY_NAME(name) ==
    IF \E c \in Condition : lower_name(c) = name
    THEN Some(CHOOSE c \in Condition : lower_name(c) = name)
    ELSE None

\* The parser state while the operands of one instruction are read:
\* the remaining input, the operands so far, and the error() call, if any
ParserStart(input) == [input |-> input, operands |-> << >>, error |-> None]

ParserError(p, message) == [p EXCEPT !.error = Some(message)]

\* parse_regex(r',') and parse_regex(r'\.'): one literal character
parse_char(p, c) ==
    IF ~IsNone(p.error) THEN p
    ELSE IF StartsWith(p.input, <<c>>)
    THEN [p EXCEPT !.input = consume_regex(p.input, 1, TRUE)]
    ELSE ParserError(p, IF c = "," THEN "expected ','" ELSE "expected '\\.'")

\* r([0-6])
RegisterDigits == {"0", "1", "2", "3", "4", "5", "6"}

\* re.match(r'r([0-6])\b', input)
match_register(input) ==
    IF /\ Len(input) >= 2
       /\ input[1] = "r"
       /\ input[2] \in RegisterDigits
       /\ WordEnd(input, 2)
    THEN 2 ELSE 0

\* parse_register
parse_register(p) ==
    IF ~IsNone(p.error) THEN p
    ELSE IF match_register(p.input) = 0
    THEN ParserError(p, "expected a register")
    ELSE [p EXCEPT !.operands = Append(@, Reg(DigitValue(p.input[2]))),
                   !.input = consume_regex(p.input, 2, TRUE)]

\* re.match(r'r([0-6])r([0-6])\b', input)
match_register_pair(input) ==
    IF /\ Len(input) >= 4
       /\ input[1] = "r"
       /\ input[2] \in RegisterDigits
       /\ input[3] = "r"
       /\ input[4] \in RegisterDigits
       /\ WordEnd(input, 4)
    THEN 4 ELSE 0

\* parse_register_pair: hi = m[1], lo = m[2], hi must be lo + 1
parse_register_pair(p) ==
    IF ~IsNone(p.error) THEN p
    ELSE IF match_register_pair(p.input) = 0
    THEN ParserError(p, "expected a 16 bit register pair")
    ELSE LET hi == DigitValue(p.input[2])
             lo == DigitValue(p.input[4])
         IN  IF hi # lo + 1
             THEN ParserError(p, "registers in 16 bit register pair must be consecutive")
             ELSE [p EXCEPT !.operands = Append(@, RegPair(lo)),
                            !.input = consume_regex(p.input, 4, TRUE)]

\* parse_immediate: [+-]? then 0[xob]? (neither followed by skip) then the
\* digits of the base up to a word boundary
parse_immediate(p) ==
    IF ~IsNone(p.error) THEN p
    ELSE LET signed == Len(p.input) >= 1 /\ p.input[1] \in {"+", "-"}
             negative == signed /\ p.input[1] = "-"
             a == IF signed THEN Drop(p.input, 1) ELSE p.input
             prefixed == /\ Len(a) >= 2
                         /\ a[1] = "0"
                         /\ a[2] \in {"x", "o", "b"}
             base == IF prefixed THEN PrefixBase(a[2]) ELSE 10
             b == IF prefixed THEN Drop(a, 2) ELSE a
             n == Run(b, DigitClass(base))
             text == remove_underscores(SubSeq(b, 1, n))
         IN  IF n = 0 \/ ~WordEnd(b, n)
             THEN ParserError(p, "expected integer")
             ELSE IF text = << >> THEN ParserError(p, "ValueError")
             ELSE [p EXCEPT
                     !.operands = Append(@, Imm(IF negative
                                                THEN 0 - int(text, base)
                                                ELSE int(text, base))),
                     !.input = consume_regex(b, n, TRUE)]

\* the classification of the text of an offset: the base of an integer, 0
\* for anything else
OffsetBase(text) ==
    LET prefixed(c) == /\ Len(text) >= 3
                       /\ text[1] = "0"
                       /\ text[2] = c
                       /\ \A k \in 3 .. Len(text) :
                            text[k] \in DigitClass(PrefixBase(c))
    IN  IF \A k \in 1 .. Len(text) : text[k] \in DigitClass(10) THEN 10
        ELSE IF prefixed("x") THEN 16
        ELSE IF prefixed("o") THEN 8
        ELSE IF prefixed("b") THEN 2
        ELSE 0

\* parse_offset: ([+-])?([0-9a-zA-Z_]+); an integer text gives an Imm, any
\* other text an Offset of that name, which must not carry a sign
parse_offset(p) ==
    IF ~IsNone(p.error) THEN p
    ELSE LET signed == Len(p.input) >= 1 /\ p.input[1] \in {"+", "-"}
             a == IF signed THEN Drop(p.input, 1) ELSE p.input
             n == Run(a, WordChars)
             text == SubSeq(a, 1, n)
             base == OffsetBase(text)
             digits == remove_underscores(
                         IF base = 10 THEN text ELSE Drop(text, 2))
             rest == consume_regex(a, n, TRUE)
         IN  IF n = 0 THEN ParserError(p, "expected integer or label")
             ELSE IF base # 0
             THEN IF digits = << >> THEN ParserError(p, "ValueError")
                  ELSE [p EXCEPT
                          !.operands = Append(@,
                              Imm(IF signed /\ p.input[1] = "-"
                                  THEN 0 - int(digits, base)
                                  ELSE int(digits, base))),
                          !.input = rest]
             ELSE IF signed THEN ParserError(p, "expected integer after sign")
             ELSE [p EXCEPT !.operands = Append(@, OffsetOperand(text)),
                            !.input = rest]

\* parse_condition: [a-z]+ looked up in CONDITION_BY_NAME
parse_condition(p) ==
    IF ~IsNone(p.error) THEN p
    ELSE LET n == Run(p.input, LowerCase)
             name == SubSeq(p.input, 1, n)
         IN  IF n = 0 \/ IsNone(CONDITION_BY_NAME(name))
             THEN ParserError(p, "expected condition code")
             ELSE [p EXCEPT
                     !.operands = Append(@, Cond(Get(CONDITION_BY_NAME(name)))),
                     !.input = consume_regex(p.input, n, TRUE)]

\* re.match(r'([a-zA-Z0-9_]+):', input)
match_label(input) ==
    LET n == Run(input, WordChars) IN
    IF n >= 1 /\ Len(input) > n /\ input[n + 1] = ":" THEN n + 1 ELSE 0

\* whether consume_identifier(identifier) succeeds on the input
mnemonic(input, identifier) == match_identifier(input, identifier) > 0

\* the parser state after consume_identifier(identifier) has succeeded
operands_after(input, identifier) ==
    ParserStart(Get(consume_identifier(input, identifier)))

\* return Instruction(opcode, operands), or the error() that came before
parsed_instruction(opcode, p) ==
    [inst |-> Instruction(opcode, p.operands), input |-> p.input,
     error |-> p.error]

\* AssemblyParser.parse_instruction: the label pattern, then the mnemonics
\* in the order of the source, each followed by its operands
parse_instruction(input) ==
    IF match_label(input) > 0
    THEN [inst |-> Instruction("D_LABEL",
                   <<Label(SubSeq(input, 1, match_label(input) - 1))>>),
          input |-> consume_regex(input, match_label(input), TRUE),
          error |-> None]
    ELSE IF mnemonic(input, <<"n", "o", "p">>) THEN
        parsed_instruction("NOP", operands_after(input, <<"n", "o", "p">>))
    ELSE IF mnemonic(input, <<"l", "d", "i">>) THEN
        parsed_instruction("LDI",
            parse_immediate(parse_char(parse_register(operands_after(input, <<"l", "d", "i">>)), ",")))
    ELSE IF mnemonic(input, <<"m", "v">>) THEN
        parsed_instruction("MV",
            parse_register(parse_char(parse_register(operands_after(input, <<"m", "v">>)), ",")))
    ELSE IF mnemonic(input, <<"j", "r">>) THEN
        parsed_instruction("JR",
            parse_register_pair(operands_after(input, <<"j", "r">>)))
    ELSE IF mnemonic(input, <<"j">>) THEN
        parsed_instruction("J", parse_offset(operands_after(input, <<"j">>)))
    ELSE IF mnemonic(input, <<"j", "r", "o">>) THEN
        parsed_instruction("JRO",
            parse_register(operands_after(input, <<"j", "r", "o">>)))
    ELSE IF mnemonic(input, <<"b", "r">>) THEN
        parsed_instruction("BR",
            parse_register_pair(parse_condition(parse_char(operands_after(input, <<"b", "r">>), "."))))
    ELSE IF mnemonic(input, <<"b">>) THEN
        parsed_instruction("B",
            parse_offset(parse_condition(parse_char(operands_after(input, <<"b">>), "."))))
    ELSE IF mnemonic(input, <<"b", "r", "o">>) THEN
        parsed_instruction("BRO",
            parse_register(parse_condition(parse_char(operands_after(input, <<"b", "r", "o">>), "."))))
    ELSE IF mnemonic(input, <<"l", "c", "d", "c", "w">>) THEN
        parsed_instruction("LCDCW",
            parse_register(operands_after(input, <<"l", "c", "d", "c", "w">>)))
    ELSE IF mnemonic(input, <<"l", "c", "d", "d", "w">>) THEN
        parsed_instruction("LCDDW",
            parse_register(operands_after(input, <<"l", "c", "d", "d", "w">>)))
    ELSE IF mnemonic(input, <<"l", "c", "d", "c", "r">>) THEN
        parsed_instruction("LCDCR",
            parse_register(operands_after(input, <<"l", "c", "d", "c", "r">>)))
    ELSE IF mnemonic(input, <<"l", "c", "d", "d", "r">>) THEN
        parsed_instruction("LCDDR",
            parse_register(operands_after(input, <<"l", "c", "d", "d", "r">>)))
    ELSE IF mnemonic(input, <<"n", "o", "t">>) THEN
        parsed_instruction("NOT",
            parse_register(operands_after(input, <<"n", "o", "t">>)))
    ELSE IF mnemonic(input, <<"n", "e", "g">>) THEN
        parsed_instruction("NEG",
            parse_register(operands_after(input, <<"n", "e", "g">>)))
    ELSE IF mnemonic(input, <<"a", "d", "d">>) THEN
        parsed_instruction("ADD",
            parse_register(parse_char(parse_register(operands_after(input, <<"a", "d", "d">>)), ",")))
    ELSE IF mnemonic(input, <<"a", "d", "d", "i">>) THEN
        parsed_instruction("ADDI",
            parse_immediate(parse_char(parse_register(operands_after(input, <<"a", "d", "d", "i">>)), ",")))
    ELSE IF mnemonic(input, <<"s", "u", "b">>) THEN
        parsed_instruction("SUB",
            parse_register(parse_char(parse_register(operands_after(input, <<"s", "u", "b">>)), ",")))
    ELSE IF mnemonic(input, <<"a", "d", "d", "c">>) THEN
        parsed_instruction("ADDC",
            parse_register(parse_char(parse_register(operands_after(input, <<"a", "d", "d", "c">>)), ",")))
    ELSE IF mnemonic(input, <<"a", "d", "d", "c", "i">>) THEN
        parsed_instruction("ADDCI",
            parse_immediate(parse_char(parse_register(operands_after(input, <<"a", "d", "d", "c", "i">>)), ",")))
    ELSE IF mnemonic(input, <<"s", "u", "b", "c">>) THEN
        parsed_instruction("SUBC",
            parse_register(parse_char(parse_register(operands_after(input, <<"s", "u", "b", "c">>)), ",")))
    ELSE IF mnemonic(input, <<"s", "h", "l", "l">>) THEN
        parsed_instruction("SHLL",
            parse_register(operands_after(input, <<"s", "h", "l", "l">>)))
    ELSE IF mnemonic(input, <<"s", "h", "l", "c">>) THEN
        parsed_instruction("SHLC",
            parse_register(operands_after(input, <<"s", "h", "l", "c">>)))
    ELSE IF mnemonic(input, <<"s", "h", "r", "l">>) THEN
        parsed_instruction("SHRL",
            parse_register(operands_after(input, <<"s", "h", "r", "l">>)))
    ELSE IF mnemonic(input, <<"s", "h", "r", "c">>) THEN
        parsed_instruction("SHRC",
            parse_register(operands_after(input, <<"s", "h", "r", "c">>)))
    ELSE IF mnemonic(input, <<"s", "h", "r", "a">>) THEN
        parsed_instruction("SHRA",
            parse_register(operands_after(input, <<"s", "h", "r", "a">>)))
    ELSE IF mnemonic(input, <<"a", "n", "d">>) THEN
        parsed_instruction("AND",
            parse_register(parse_char(parse_register(operands_after(input, <<"a", "n", "d">>)), ",")))
    ELSE IF mnemonic(input, <<"a", "n", "d", "i">>) THEN
        parsed_instruction("ANDI",
            parse_immediate(parse_char(parse_register(operands_after(input, <<"a", "n", "d", "i">>)), ",")))
    ELSE IF mnemonic(input, <<"o", "r">>) THEN
        parsed_instruction("OR",
            parse_register(parse_char(parse_register(operands_after(input, <<"o", "r">>)), ",")))
    ELSE IF mnemonic(input, <<"o", "r", "i">>) THEN
        parsed_instruction("ORI",
            parse_immediate(parse_char(parse_register(operands_after(input, <<"o", "r", "i">>)), ",")))
    ELSE IF mnemonic(input, <<"x", "o", "r">>) THEN
        parsed_instruction("XOR",
            parse_register(parse_char(parse_register(operands_after(input, <<"x", "o", "r">>)), ",")))
    ELSE IF mnemonic(input, <<"x", "o", "r", "i">>) THEN
        parsed_instruction("XORI",
            parse_immediate(parse_char(parse_register(operands_after(input, <<"x", "o", "r", "i">>)), ",")))
    ELSE IF mnemonic(input, <<"c", "m", "p">>) THEN
        parsed_instruction("CMP",
            parse_register(parse_char(parse_register(operands_after(input, <<"c", "m", "p">>)), ",")))
    ELSE IF mnemonic(input, <<"c", "m", "p", "i">>) THEN
        parsed_instruction("CMPI",
            parse_immediate(parse_char(parse_register(operands_after(input, <<"c", "m", "p", "i">>)), ",")))
    ELSE IF mnemonic(input, <<"t", "e", "s", "t">>) THEN
        parsed_instruction("TEST",
            parse_register(parse_char(parse_register(operands_after(input, <<"t", "e", "s", "t">>)), ",")))
    ELSE IF mnemonic(input, <<"t", "e", "s", "t", "i">>) THEN
        parsed_instruction("TESTI",
            parse_immediate(parse_char(parse_register(operands_after(input, <<"t", "e", "s", "t", "i">>)), ",")))
    ELSE IF mnemonic(input, <<"f", "s", "w", "a", "p">>) THEN
        parsed_instruction("FSWAP",
            parse_register(operands_after(input, <<"f", "s", "w", "a", "p">>)))
    ELSE IF mnemonic(input, <<"f", "r">>) THEN
        parsed_instruction("FR",
            parse_register(operands_after(input, <<"f", "r">>)))
    ELSE IF mnemonic(input, <<"f", "w">>) THEN
        parsed_instruction("FW",
            parse_register(operands_after(input, <<"f", "w">>)))
    ELSE IF mnemonic(input, <<"c", "m", "v">>) THEN
        parsed_instruction("CMV",
            parse_register(parse_char(parse_register(parse_condition(parse_char(operands_after(input, <<"c", "m", "v">>), "."))), ",")))
    ELSE IF mnemonic(input, <<"c", "l", "d", "i">>) THEN
        parsed_instruction("CLDI",
            parse_immediate(parse_char(parse_register(parse_condition(parse_char(operands_after(input, <<"c", "l", "d", "i">>), "."))), ",")))
    ELSE IF mnemonic(input, <<"h", "a", "l", "t">>) THEN
        parsed_instruction("HALT",
            operands_after(input, <<"h", "a", "l", "t">>))
    ELSE IF mnemonic(input, <<".", "o", "r", "g">>) THEN
        parsed_instruction("D_ORG",
            parse_immediate(operands_after(input, <<".", "o", "r", "g">>)))
    ELSE [inst |-> None, input |-> input,
          error |-> Some("unknown instruction")]

\* the loop of AssemblyParser.parse_program: instructions are parsed and
\* appended until the input is empty or error() is called
RECURSIVE parse_loop(_, _)
parse_loop(input, prog) ==
    IF Len(input) = 0 THEN [program |-> prog, error |-> None]
    ELSE LET r == parse_instruction(input) IN
         IF ~IsNone(r.error) THEN [program |-> prog, error |-> r.error]
         ELSE parse_loop(r.input, Append(prog, r.inst))

\* AssemblyParser.parse_program on a text: skip(), then the loop
parse_program(text) == parse_loop(skip(text), << >>)

\* parse_file up to the loop of parse_program: the file is read into
\* current_input and current_contents, then skip()
ParseProgramStart ==
    /\ phase = "start"
    /\ current_contents' = Some(input_file)
    /\ current_input' = Some(skip(input_file))
    /\ phase' = "parse"
    /\ UNCHANGED <<program, index, labels, relative_labels, current_address,
                   output_size, binary, outfile, failure, decoded, input_file,
                   printed, previous>>
    /\ UNCHANGED decoderVars

\* one iteration of `while len(self.current_input) > 0`
ParseInstruction ==
    /\ phase = "parse"
    /\ Len(Get(current_input)) > 0
    /\ LET r == parse_instruction(Get(current_input)) IN
       IF IsNone(r.error)
       THEN /\ program' = Append(program, r.inst)
            /\ current_input' = Some(r.input)
            /\ UNCHANGED <<phase, failure>>
       ELSE /\ Exit("parse", Get(r.error))
            /\ UNCHANGED <<program, current_input>>
    /\ UNCHANGED <<index, labels, relative_labels, current_address,
                   output_size, binary, outfile, decoded, current_contents,
                   input_file, printed, previous>>
    /\ UNCHANGED decoderVars

\* the input is used up: parse_file clears its buffers and main goes on to
\* Resolver().resolve_program
ParseFileEnd ==
    /\ phase = "parse"
    /\ Len(Get(current_input)) = 0
    /\ current_input' = None
    /\ current_contents' = None
    /\ phase' = "register"
    /\ UNCHANGED <<program, index, labels, relative_labels, current_address,
                   output_size, binary, outfile, failure, decoded, input_file,
                   printed, previous>>
    /\ UNCHANGED decoderVars

ParserNext ==
    \/ ParseProgramStart
    \/ ParseInstruction
    \/ ParseFileEnd

\* the state when main starts: the input file is on disk, nothing is parsed
Invoked(texts, sizes) ==
    /\ input_file \in texts
    /\ output_size \in sizes
    /\ program = << >>
    /\ phase = "start"
    /\ index = 0
    /\ labels = << >>
    /\ relative_labels = << >>
    /\ current_address = 0
    /\ binary = None
    /\ outfile = None
    /\ failure = None
    /\ decoded = None
    /\ ParserIdle
    /\ printed = None
    /\ previous = None
    /\ DecoderIdle

\* s1 + s2 + ... for a sequence of texts
RECURSIVE Concat(_)
Concat(pieces) ==
    IF Len(pieces) = 0 THEN << >>
    ELSE pieces[1] \o Concat(Tail(pieces))

\* the texts made of up to MaxProg pieces
TextsOver(pieces) == {Concat(ps) : ps \in ProgramsOver(pieces)}


(***************************************************************************)
(* assembler/assembler.py: AssemblyPrinter                                 *)
(***************************************************************************)

\* the digit characters of the format specifications `X` and `d`
HexChar(d) ==
    <<"0", "1", "2", "3", "4", "5", "6", "7", "8", "9",
      "A", "B", "C", "D", "E", "F">>[d + 1]

\* the digits of n >= 0 in the base, most significant first
RECURSIVE digits_of(_, _)
digits_of(n, base) ==
    IF n < base THEN <<HexChar(n)>>
    ELSE digits_of(n \div base, base) \o <<HexChar(n % base)>>

\* zero padding on the left up to the width
zero_fill(text, width) == [k \in 1 .. (width - Len(text)) |-> "0"] \o text

\* f"{n:04X}": upper case hexadecimal, sign included in the width of 4
format_04X(n) ==
    IF n >= 0 THEN zero_fill(digits_of(n, 16), 4)
    ELSE <<"-">> \o zero_fill(digits_of(0 - n, 16), 3)

\* f"{n}"
format_int(n) ==
    IF n >= 0 THEN digits_of(n, 10) ELSE <<"-">> \o digits_of(0 - n, 10)

\* print_opcode(text): f"    {text:<9s}"
print_opcode(text) ==
    <<" ", " ", " ", " ">> \o text \o [k \in 1 .. (9 - Len(text)) |-> " "]

\* faulty variant: a register pair is printed low register first
print_operand_low_first(operand, hint_relative, hint_addr) ==
    IF operand.kind = "Imm"
    THEN IF hint_addr THEN <<"0", "x">> \o format_04X(operand.value)
         ELSE IF operand.value >= 0 /\ hint_relative
         THEN <<"+">> \o format_int(operand.value)
         ELSE format_int(operand.value)
    ELSE IF operand.kind = "Reg" THEN <<"r">> \o format_int(operand.value)
    ELSE IF operand.kind = "RegPair"
    THEN <<"r">> \o format_int(operand.value)
         \o <<"r">> \o format_int(operand.value + 1)
    ELSE IF operand.kind = "Cond" THEN lower_name(operand.value)
    ELSE IF operand.kind = "Offset" THEN operand.value.name
    ELSE <<"<", "?", ">">>

\* print_operand(operand, hint_relative, hint_addr)
print_operand(operand, hint_relative, hint_addr) ==
    IF operand.kind = "Imm"
    THEN IF hint_addr THEN <<"0", "x">> \o format_04X(operand.value)
         ELSE IF operand.value >= 0 /\ hint_relative
         THEN <<"+">> \o format_int(operand.value)
         ELSE format_int(operand.value)
    ELSE IF operand.kind = "Reg" THEN <<"r">> \o format_int(operand.value)
    ELSE IF operand.kind = "RegPair"
    THEN <<"r">> \o format_int(operand.value + 1)
         \o <<"r">> \o format_int(operand.value)
    ELSE IF operand.kind = "Cond" THEN lower_name(operand.value)
    ELSE IF operand.kind = "Offset" THEN operand.value.name
    ELSE <<"<", "?", ">">>

\* print_target_comment(inst, operand)
print_target_comment(i, operand) ==
    LET offset == IF operand.kind = "Offset" THEN operand.value.offset
                  ELSE Some(operand.value)
    IN  IF ~IsNone(i.address) /\ ~IsNone(offset)
        THEN <<" ", " ", "#", " ">>
             \o format_04X(Get(i.address) + Get(offset))
        ELSE << >>

\* the address and encoding columns that print_instruction emits first
print_annotation(i, emit_address, emit_encoding) ==
    (IF emit_address
     THEN (IF IsNone(i.address) THEN <<"?", "?", "?", "?">>
           ELSE format_04X(Get(i.address))) \o <<":", " ", " ">>
     ELSE << >>)
    \o (IF emit_encoding
        THEN (IF IsNone(i.encoding) THEN <<" ", " ", " ", " ">>
              ELSE format_04X(Get(i.encoding))) \o <<" ", " ">>
        ELSE << >>)

\* AssemblyPrinter.print_instruction after the annotation columns: the
\* mnemonic and the operands of each opcode, in the order of the source
print_statement(i) ==
    LET op == i.opcode
        ops == i.operands
    IN
    IF op = "NOP" THEN
        print_opcode(<<"n", "o", "p">>)
    ELSE IF op = "LDI" THEN
        print_opcode(<<"l", "d", "i", " ">>)
            \o print_operand(ops[1], FALSE, FALSE)
            \o <<",", " ">>
            \o print_operand(ops[2], FALSE, FALSE)
    ELSE IF op = "MV" THEN
        print_opcode(<<"m", "v", " ">>)
            \o print_operand(ops[1], FALSE, FALSE)
            \o <<",", " ">>
            \o print_operand(ops[2], FALSE, FALSE)
    ELSE IF op = "JR" THEN
        print_opcode(<<"j", "r", " ">>)
            \o print_operand(ops[1], FALSE, FALSE)
    ELSE IF op = "J" THEN
        print_opcode(<<"j", " ">>)
            \o print_operand(ops[1], TRUE, FALSE)
            \o print_target_comment(i, ops[1])
    ELSE IF op = "JRO" THEN
        print_opcode(<<"j", "r", "o", " ">>)
            \o print_operand(ops[1], FALSE, FALSE)
    ELSE IF op = "BR" THEN
        print_opcode(<<"b", "r", ".">> \o lower_name(ops[1].value) \o <<" ">>)
            \o print_operand(ops[2], FALSE, FALSE)
    ELSE IF op = "B" THEN
        print_opcode(<<"b", ".">> \o lower_name(ops[1].value) \o <<" ">>)
            \o print_operand(ops[2], TRUE, FALSE)
            \o print_target_comment(i, ops[2])
    ELSE IF op = "BRO" THEN
        print_opcode(<<"b", "r", "o", ".">> \o lower_name(ops[1].value) \o <<" ">>)
            \o print_operand(ops[2], FALSE, FALSE)
    ELSE IF op = "LCDCW" THEN
        print_opcode(<<"l", "c", "d", "c", "w", " ">>)
            \o print_operand(ops[1], FALSE, FALSE)
    ELSE IF op = "LCDDW" THEN
        print_opcode(<<"l", "c", "d", "d", "w", " ">>)
            \o print_operand(ops[1], FALSE, FALSE)
    ELSE IF op = "LCDCR" THEN
        print_opcode(<<"l", "c", "d", "c", "r", " ">>)
            \o print_operand(ops[1], FALSE, FALSE)
    ELSE IF op = "LCDDR" THEN
        print_opcode(<<"l", "c", "d", "d", "r", " ">>)
            \o print_operand(ops[1], FALSE, FALSE)
    ELSE IF op = "NOT" THEN
        print_opcode(<<"n", "o", "t", " ">>)
            \o print_operand(ops[1], FALSE, FALSE)
    ELSE IF op = "NEG" THEN
        print_opcode(<<"n", "e", "g", " ">>)
            \o print_operand(ops[1], FALSE, FALSE)
    ELSE IF op = "ADD" THEN
        print_opcode(<<"a", "d", "d", " ">>)
            \o print_operand(ops[1], FALSE, FALSE)
            \o <<",", " ">>
            \o print_operand(ops[2], FALSE, FALSE)
    ELSE IF op = "ADDI" THEN
        print_opcode(<<"a", "d", "d", "i", " ">>)
            \o print_operand(ops[1], FALSE, FALSE)
            \o <<",", " ">>
            \o print_operand(ops[2], FALSE, FALSE)
    ELSE IF op = "SUB" THEN
        print_opcode(<<"s", "u", "b", " ">>)
            \o print_operand(ops[1], FALSE, FALSE)
            \o <<",", " ">>
            \o print_operand(ops[2], FALSE, FALSE)
    ELSE IF op = "ADDC" THEN
        print_opcode(<<"a", "d", "d", "c", " ">>)
            \o print_operand(ops[1], FALSE, FALSE)
            \o <<",", " ">>
            \o print_operand(ops[2], FALSE, FALSE)
    ELSE IF op = "ADDCI" THEN
        print_opcode(<<"a", "d", "d", "c", "i", " ">>)
            \o print_operand(ops[1], FALSE, FALSE)
            \o <<",", " ">>
            \o print_operand(ops[2], FALSE, FALSE)
    ELSE IF op = "SUBC" THEN
        print_opcode(<<"s", "u", "b", "c", " ">>)
            \o print_operand(ops[1], FALSE, FALSE)
            \o <<",", " ">>
            \o print_operand(ops[2], FALSE, FALSE)
    ELSE IF op = "SHLL" THEN
        print_opcode(<<"s", "h", "l", "l", " ">>)
            \o print_operand(ops[1], FALSE, FALSE)
    ELSE IF op = "SHLC" THEN
        print_opcode(<<"s", "h", "l", "c", " ">>)
            \o print_operand(ops[1], FALSE, FALSE)
    ELSE IF op = "SHRL" THEN
        print_opcode(<<"s", "h", "r", "l", " ">>)
            \o print_operand(ops[1], FALSE, FALSE)
    ELSE IF op = "SHRC" THEN
        print_opcode(<<"s", "h", "r", "c", " ">>)
            \o print_operand(ops[1], FALSE, FALSE)
    ELSE IF op = "SHRA" THEN
        print_opcode(<<"s", "h", "r", "a", " ">>)
            \o print_operand(ops[1], FALSE, FALSE)
    ELSE IF op = "AND" THEN
        print_opcode(<<"a", "n", "d", " ">>)
            \o print_operand(ops[1], FALSE, FALSE)
            \o <<",", " ">>
            \o print_operand(ops[2], FALSE, FALSE)
    ELSE IF op = "ANDI" THEN
        print_opcode(<<"a", "n", "d", "i", " ">>)
            \o print_operand(ops[1], FALSE, FALSE)
            \o <<",", " ">>
            \o print_operand(ops[2], FALSE, FALSE)
    ELSE IF op = "OR" THEN
        print_opcode(<<"o", "r", " ">>)
            \o print_operand(ops[1], FALSE, FALSE)
            \o <<",", " ">>
            \o print_operand(ops[2], FALSE, FALSE)
    ELSE IF op = "ORI" THEN
        print_opcode(<<"o", "r", "i", " ">>)
            \o print_operand(ops[1], FALSE, FALSE)
            \o <<",", " ">>
            \o print_operand(ops[2], FALSE, FALSE)
    ELSE IF op = "XOR" THEN
        print_opcode(<<"x", "o", "r", " ">>)
            \o print_operand(ops[1], FALSE, FALSE)
            \o <<",", " ">>
            \o print_operand(ops[2], FALSE, FALSE)
    ELSE IF op = "XORI" THEN
        print_opcode(<<"x", "o", "r", "i", " ">>)
            \o print_operand(ops[1], FALSE, FALSE)
            \o <<",", " ">>
            \o print_operand(ops[2], FALSE, FALSE)
    ELSE IF op = "CMP" THEN
        print_opcode(<<"c", "m", "p", " ">>)
            \o print_operand(ops[1], FALSE, FALSE)
            \o <<",", " ">>
            \o print_operand(ops[2], FALSE, FALSE)
    ELSE IF op = "CMPI" THEN
        print_opcode(<<"c", "m", "p", "i", " ">>)
            \o print_operand(ops[1], FALSE, FALSE)
            \o <<",", " ">>
            \o print_operand(ops[2], FALSE, FALSE)
    ELSE IF op = "TEST" THEN
        print_opcode(<<"t", "e", "s", "t", " ">>)
            \o print_operand(ops[1], FALSE, FALSE)
            \o <<",", " ">>
            \o print_operand(ops[2], FALSE, FALSE)
    ELSE IF op = "TESTI" THEN
        print_opcode(<<"t", "e", "s", "t", "i", " ">>)
            \o print_operand(ops[1], FALSE, FALSE)
            \o <<",", " ">>
            \o print_operand(ops[2], FALSE, FALSE)
    ELSE IF op = "FSWAP" THEN
        print_opcode(<<"f", "s", "w", "a", "p", " ">>)
            \o print_operand(ops[1], FALSE, FALSE)
    ELSE IF op = "FR" THEN
        print_opcode(<<"f", "r", " ">>)
            \o print_operand(ops[1], FALSE, FALSE)
    ELSE IF op = "FW" THEN
        print_opcode(<<"f", "w", " ">>)
            \o print_operand(ops[1], FALSE, FALSE)
    ELSE IF op = "CMV" THEN
        print_opcode(<<"c", "m", "v", ".">> \o lower_name(ops[1].value) \o <<" ">>)
            \o print_operand(ops[2], FALSE, FALSE)
            \o <<",", " ">>
            \o print_operand(ops[3], FALSE, FALSE)
    ELSE IF op = "CLDI" THEN
        print_opcode(<<"c", "l", "d", "i", ".">> \o lower_name(ops[1].value) \o <<" ">>)
            \o print_operand(ops[2], FALSE, FALSE)
            \o <<",", " ">>
            \o print_operand(ops[3], FALSE, FALSE)
    ELSE IF op = "HALT" THEN
        print_opcode(<<"h", "a", "l", "t">>)
    ELSE IF op = "D_ORG" THEN
        <<".", "o", "r", "g", " ">>
            \o print_operand(ops[1], FALSE, TRUE)
    ELSE IF op = "D_LABEL" THEN
        ops[1].value
            \o <<":">>
    ELSE <<"<", "?", ">">>


\* AssemblyPrinter.print_instruction(inst)
print_instruction(i, emit_address, emit_encoding) ==
    print_annotation(i, emit_address, emit_encoding) \o print_statement(i)

\* the loop of AssemblyPrinter.print over program[k ..]
RECURSIVE print_loop(_, _, _, _)
print_loop(prog, k, emit_address, emit_encoding) ==
    IF k > Len(prog) THEN << >>
    ELSE print_instruction(prog[k], emit_address, emit_encoding) \o <<"\n">>
         \o print_loop(prog, k + 1, emit_address, emit_encoding)

\* AssemblyPrinter(program).print()
print(prog) ==
    print_loop(prog, 1,
               \E k \in 1 .. Len(prog) : ~IsNone(prog[k].address),
               \E k \in 1 .. Len(prog) : ~IsNone(prog[k].encoding))

\* if args.print_assembly: print(AssemblyPrinter(parser.program).print());
\* the built-in print ends the text with a newline
PrintAssembly ==
    /\ phase = "bytes"
    /\ IsNone(printed)
    /\ printed' = Some(print(program) \o <<"\n">>)
    /\ UNCHANGED <<program, phase, index, labels, relative_labels,
                   current_address, output_size, binary, outfile, failure,
                   decoded, input_file, current_contents, current_input,
                   previous>>
    /\ UNCHANGED decoderVars

\* the width of the annotation columns of a listing of the program
AnnotationWidth(prog) ==
    (IF \E k \in 1 .. Len(prog) : ~IsNone(prog[k].address) THEN 7 ELSE 0)
    + (IF \E k \in 1 .. Len(prog) : ~IsNone(prog[k].encoding) THEN 6 ELSE 0)

\* a listing without the first `width` characters of each of its lines
RECURSIVE WithoutAnnotations(_, _)
WithoutAnnotations(text, width) ==
    IF Len(text) = 0 THEN << >>
    ELSE LET newlines == {k \in 1 .. Len(text) : text[k] = "\n"}
             end == IF newlines = {} THEN Len(text)
                    ELSE CHOOSE k \in newlines : \A j \in newlines : k <= j
         IN  SubSeq(text, width + 1, end)
             \o WithoutAnnotations(Drop(text, end), width)

\* what a finished run leaves behind
RunResult ==
    [program |-> program, binary |-> binary, outfile |-> outfile,
     failure |-> failure]

\* faulty variant: the label tables of the first run are still there
FreshProcess_keeping_labels ==
    /\ program' = << >>
    /\ phase' = "start"
    /\ index' = 0
    /\ UNCHANGED <<labels, relative_labels>>
    /\ current_address' = 0
    /\ binary' = None
    /\ outfile' = None
    /\ failure' = None
    /\ current_contents' = None
    /\ current_input' = None

\* a new process is started: every object of main is constructed afresh
FreshProcess ==
    /\ program' = << >>
    /\ phase' = "start"
    /\ index' = 0
    /\ labels' = << >>
    /\ relative_labels' = << >>
    /\ current_address' = 0
    /\ binary' = None
    /\ outfile' = None
    /\ failure' = None
    /\ current_contents' = None
    /\ current_input' = None

\* the assembler is run on the listing it has printed, the annotation
\* columns left out
AssembleListing ==
    /\ phase = "done"
    /\ ~IsNone(printed)
    /\ IsNone(previous)
    /\ previous' = Some(RunResult)
    /\ input_file' = WithoutAnnotations(Get(printed), AnnotationWidth(program))
    /\ FreshProcess
    /\ UNCHANGED <<output_size, decoded, printed>>
    /\ UNCHANGED decoderVars


(***************************************************************************)
(* assembler/assembler.py: what AssemblyParser.parse_instruction produces  *)
(***************************************************************************)

\* immediates are enumerated over -ImmBelow .. ImmAbove
ImmBelow == 130

ImmAbove == 257

ImmValues == (0 - ImmBelow) .. ImmAbove

\* parse_register: r0 .. r6
Registers == 0 .. 6

\* parse_register_pair: hi = lo + 1, both in r0 .. r6
RegisterPairs == {lo \in Registers : lo + 1 \in Registers}

RdOpcodes == {"LCDCW", "LCDDW", "LCDCR", "LCDDR", "NOT", "NEG", "SHLL",
              "SHLC", "SHRL", "SHRC", "SHRA", "FSWAP", "FR", "FW"}

RdRsOpcodes == {"MV", "ADD", "SUB", "ADDC", "SUBC", "AND", "OR", "XOR", "CMP",
                "TEST"}

Imm8Opcodes == {"LDI", "ADDI", "ANDI", "ORI", "TESTI"}

Simm4Opcodes == {"ADDCI", "XORI", "CMPI"}

(***************************************************************************)
(* Encoder specification: one parsed instruction, laid out at address 0,   *)
(* is encoded and the resulting word is looked up in the decode table.     *)
(***************************************************************************)

\* the program is the single instruction i, laid out at address 0
ParsedAs(i) == program = <<[i EXCEPT !.address = Some(0)]>>

\* parse_instruction: the program is some real instruction the parser can
\* produce with literal operands (one disjunct per operand shape)
ParsedInstruction ==
    \/ ParsedAs(Instruction("NOP", << >>))
    \/ ParsedAs(Instruction("HALT", << >>))
    \/ \E op \in RdOpcodes, rd \in Registers : ParsedAs(Instruction(op, <<Reg(rd)>>))
    \/ \E op \in RdRsOpcodes, rd \in Registers, rs \in Registers :
        ParsedAs(Instruction(op, <<Reg(rd), Reg(rs)>>))
    \/ \E op \in Imm8Opcodes \cup Simm4Opcodes, rd \in Registers,
          v \in ImmValues :
        ParsedAs(Instruction(op, <<Reg(rd), Imm(v)>>))
    \/ \E lo \in RegisterPairs : ParsedAs(Instruction("JR", <<RegPair(lo)>>))
    \/ \E rs \in Registers : ParsedAs(Instruction("JRO", <<Reg(rs)>>))
    \/ \E v \in ImmValues : ParsedAs(Instruction("J", <<Imm(v)>>))
    \/ \E c \in Condition, lo \in RegisterPairs :
        ParsedAs(Instruction("BR", <<Cond(c), RegPair(lo)>>))
    \/ \E c \in Condition, rs \in Registers :
        ParsedAs(Instruction("BRO", <<Cond(c), Reg(rs)>>))
    \/ \E c \in Condition, v \in ImmValues :
        ParsedAs(Instruction("B", <<Cond(c), Imm(v)>>))
    \/ \E c \in Condition, rd \in Registers, rs \in Registers :
        ParsedAs(Instruction("CMV", <<Cond(c), Reg(rd), Reg(rs)>>))
    \/ \E c \in Condition, rd \in Registers, v \in ImmValues :
        ParsedAs(Instruction("CLDI", <<Cond(c), Reg(rd), Imm(v)>>))

\* the passes before the encoder have run over a program of one instruction
EncoderReady ==
    /\ output_size = None
    /\ phase = "encode"
    /\ index = 0
    /\ labels = << >>
    /\ relative_labels = << >>
    /\ current_address = InstructionSize
    /\ binary = None
    /\ outfile = None
    /\ failure = None
    /\ decoded = None
    /\ input_file = << >>
    /\ ParserIdle
    /\ printed = None
    /\ previous = None
    /\ DecoderIdle

EncInit == ParsedInstruction /\ EncoderReady

\* the CPU looks the encoded word up in the decode ROMs
HardwareDecode ==
    /\ phase = "bytes"
    /\ IsNone(decoded)
    /\ Len(program) = 1
    /\ ~IsNone(program[1].encoding)
    /\ decoded' = Some(decode(Get(program[1].encoding)))
    /\ UNCHANGED <<program, phase, index, labels, relative_labels,
                   current_address, output_size, binary, outfile, failure>>
    /\ UNCHANGED textVars
    /\ UNCHANGED decoderVars

EncNext == EncodeInstruction \/ HardwareDecode

SpecEnc == EncInit /\ [][EncNext]_vars

(***************************************************************************)
(* Label specification: programs of label definitions and jumps            *)
(***************************************************************************)

LabelDefinition(name) == Instruction("D_LABEL", <<Label(name)>>)

OrgDirective(v) == Instruction("D_ORG", <<Imm(v)>>)

Jump(name) == Instruction("J", <<OffsetOperand(name)>>)

Nop == Instruction("NOP", << >>)

LabelAlphabet ==
    {LabelDefinition(<<"1">>), LabelDefinition(<<"2">>),
     LabelDefinition(<<"f", "o", "o">>), LabelDefinition(<<"b", "a", "r">>),
     Jump(<<"1", "f">>), Jump(<<"1", "b">>), Jump(<<"f", "o", "o">>)}

\* `1:` at indices 2 and 7 and a reference at index 4
LabelScenario(ref) ==
    <<Nop, Nop, LabelDefinition(<<"1">>), Nop, Jump(ref), Nop, Nop,
      LabelDefinition(<<"1">>)>>

LabelPrograms ==
    ProgramsOver(LabelAlphabet)
    \cup {LabelScenario(<<"1", "f">>), LabelScenario(<<"1", "b">>),
          LabelScenario(<<"2", "f">>),
          \* a label whose own name has the form of a relative reference
          <<LabelDefinition(<<"1", "f">>), Jump(<<"1", "f">>)>>,
          <<Jump(<<"1", "f">>), LabelDefinition(<<"1", "f">>),
            LabelDefinition(<<"1">>)>>}

SpecLabels == Parsed(LabelPrograms, {None}) /\ [][AssemblerNext]_vars

(***************************************************************************)
(* Layout specification: programs of instructions, labels and origins      *)
(***************************************************************************)

LayoutAlphabet ==
    {Instruction("LDI", <<Reg(0), Imm(5)>>),
     Instruction("ADD", <<Reg(0), Reg(0)>>),
     Instruction("HALT", << >>),
     LabelDefinition(<<"1">>),
     OrgDirective(0), OrgDirective(2), OrgDirective(6)}

LayoutPrograms ==
    ProgramsOver(LayoutAlphabet)
    \cup {<<OrgDirective(0 - 2)>>, <<OrgDirective(16), LabelDefinition(<<"1">>),
            Jump(<<"1", "b">>)>>}

SpecLayout == Parsed(LayoutPrograms, {None}) /\ [][AssemblerNext]_vars


(***************************************************************************)
(* Decode-table generator: claims                                          *)
(***************************************************************************)

FieldsFit(d) ==
    /\ d.rd \in 0 .. 3
    /\ d.rs \in 0 .. 3
    /\ d.flags \in 0 .. 3
    /\ d.pc \in 0 .. 3
    /\ d.fuid \in 0 .. 3
    /\ d.fuop \in 0 .. 63

\* C2: totality of decode. No iteration of the generator loop fails, every
\* field of every decode result fits its packing width, every offset that is
\* written lies inside the 65536-byte ROMs, and when the loop has finished
\* every offset has been processed and holds a byte.
C2_DecodeTotal ==
    /\ rom_pc # "failed"
    /\ inst \in rom_lo .. rom_hi
    /\ rom_hi <= RomSize
    /\ \A n \in rom_lo .. (inst - 1) : FieldsFit(decode(n))
    /\ \A n \in DOMAIN rom0_bytes : rom0_bytes[n] \in 0 .. 255
    /\ \A n \in DOMAIN rom1_bytes : rom1_bytes[n] \in 0 .. 255
    /\ rom_pc = "done" =>
        /\ inst = rom_hi
        /\ DOMAIN rom0_bytes = rom_lo .. (rom_hi - 1)
        /\ DOMAIN rom1_bytes = rom_lo .. (rom_hi - 1)

\* the loop has run to its end over the slice holding the last word 0xFFFF
C2_Witness ==
    /\ rom_pc = "done"
    /\ rom_hi = RomSize
    /\ inst = RomSize

\* C3: ROM layout. Every processed offset n holds
\* rd | rs<<2 | flags<<4 | pc<<6 in rom0 and fuop | fuid<<6 in rom1 of
\* decode(n), and the offsets not yet processed are untouched (still zero).
C3_RomLayout ==
    /\ \A n \in rom_lo .. (inst - 1) :
        LET d == decode(n) IN
        /\ rom0_bytes[n] = d.rd + 4 * d.rs + 16 * d.flags + 64 * d.pc
        /\ rom1_bytes[n] = d.fuop + 64 * d.fuid
    /\ \A n \in inst .. (rom_hi - 1) :
        rom0_bytes[n] = 0 /\ rom1_bytes[n] = 0

\* word 0x0009 (halt) is a relative jump with an 8 bit immediate: rom0 holds
\* 3 | 2<<2 | 3<<4 | 1<<6 = 123 while the later offsets are still zero
C3_Witness ==
    /\ rom_lo = 0
    /\ inst = 10
    /\ rom0_bytes[9] = 123
    /\ rom1_bytes[9] = 0
    /\ rom0_bytes[8] = 57
    /\ rom0_bytes[10] = 0

\* the instruction patterns decode() recognises, by nibble
Recognised(w) ==
    LET f0 == w % 16
        f2 == (w \div 16) % 16
        f3 == (w \div 256) % 16
        f1 == w \div 4096
    IN
    \/ w = 0
    \/ f0 = 0 /\ f1 = 1
    \/ f0 = 0 /\ f1 \in {2, 3} /\ f2 = 0
    \/ f0 = 1 /\ f1 = 0 /\ f3 <= 9
    \/ f0 = 1 /\ f1 \in 1 .. 12
    \/ f0 \in {2, 3, 8, 12, 13, 14, 15}
    \/ f0 = 9 /\ f2 = 0

\* C4: the pc mode stored for a word is Reserved exactly when the word matches
\* no recognised pattern; such a word stores rom0 = 0xFF and rom1 = 0x00 (all
\* other fields at their defaults); every word whose low nibble is 4, 5, 6, 7,
\* 10 or 11 is one of them; and the loop does not fail on any of them.
C4_ReservedIffUnrecognised ==
    /\ rom_pc # "failed"
    /\ \A n \in rom_lo .. (inst - 1) :
        /\ (rom0_bytes[n] \div 64 = PcMode.Reserved) <=> ~Recognised(n)
        /\ ~Recognised(n) => rom0_bytes[n] = 255 /\ rom1_bytes[n] = 0
        /\ (n % 16) \in {4, 5, 6, 7, 10, 11} => rom0_bytes[n] \div 64 = PcMode.Reserved

\* an unrecognised word outside the listed nibbles (0x0019: low nibble 9 with a
\* non-zero rd nibble) and one inside them (0x0004) have been stored
C4_Witness ==
    /\ rom_lo = 16
    /\ rom_pc = "done"
    /\ rom0_bytes[25] = 255
    /\ rom1_bytes[25] = 0
    /\ rom0_bytes[20] = 255
    /\ rom0_bytes[24] # 255

(***************************************************************************)
(* Encoder and decoder: claims                                             *)
(***************************************************************************)

RelJumpOpcodes == {"J", "JRO", "B", "BRO", "HALT"}

AbsJumpOpcodes == {"JR", "BR"}

\* the source-operand mode that corresponds to the operand the encoder packs
\* into the source field; None when the instruction has no source operand
SourceModeOf(op) ==
    IF op \in RdRsOpcodes \cup {"JRO", "BRO", "CMV"} THEN Some(RsMode.R8)
    ELSE IF op \in {"JR", "BR"} THEN Some(RsMode.R16)
    ELSE IF op \in Imm8Opcodes \cup {"J", "B"} THEN Some(RsMode.Imm8)
    ELSE IF op \in Simm4Opcodes \cup {"CLDI"} THEN Some(RsMode.Imm4)
    ELSE None

ConsistentDecode(op, d) ==
    /\ d.pc # PcMode.Reserved
    /\ d.pc = PcMode.RelJump <=> op \in RelJumpOpcodes
    /\ d.pc = PcMode.AbsJump <=> op \in AbsJumpOpcodes
    /\ d.pc = PcMode.Step <=> op \notin RelJumpOpcodes \cup AbsJumpOpcodes
    /\ ~IsNone(SourceModeOf(op)) => d.rs = Get(SourceModeOf(op))

\* C1: encode/decode agreement. For every real instruction with in-range
\* operands the decode of the encoded word is consistent with the
\* instruction: the pc mode is never Reserved, is RelJump exactly for j, jro,
\* b, bro and halt, AbsJump exactly for jr and br, Step otherwise, and the
\* source-operand mode matches the source operand that was packed.
C1_EncodeDecodeAgreement ==
    ~IsNone(decoded) => ConsistentDecode(program[1].opcode, Get(decoded))

\* the opcodes whose encodings decode() does not recognise
UndecodedOpcodes == {"B", "BR", "BRO", "LCDCW", "LCDDW", "LCDCR", "LCDDR"}

\* the extent of the disagreement: every encoding of these opcodes decodes to
\* Reserved, and every other instruction decodes consistently
C1_Extent ==
    ~IsNone(decoded) =>
        IF program[1].opcode \in UndecodedOpcodes
        THEN Get(decoded).pc = PcMode.Reserved
        ELSE ConsistentDecode(program[1].opcode, Get(decoded))


\* the encoder has handled the single instruction of the program
EncodeAttempted ==
    Len(program) = 1 /\ (phase \in {"error", "bytes"} \/ index = 1)

EncodeAccepted ==
    /\ phase # "error"
    /\ ~IsNone(program[1].encoding)
    /\ IsNone(failure)

EncodeOutOfBounds ==
    /\ phase = "error"
    /\ IsNone(program[1].encoding)
    /\ ~IsNone(failure)
    /\ Get(failure).pass = "encode"
    /\ Get(failure).message = "immediate value is out of bounds"

\* the immediate operand of an instruction (its last operand)
ImmediateOf(i) == i.operands[Len(i.operands)].value

\* C5: range enforcement. An unsigned 8 bit immediate (ldi, addi, andi, ori,
\* testi) is accepted iff -128 <= v <= 255, a jump / branch displacement
\* (j, b) iff -128 <= v <= 127, a signed 4 bit immediate (addci, xori, cmpi,
\* cldi) iff -8 <= v <= 7; a rejected value ends the run with an out-of-bounds
\* error and the instruction keeps no encoding.
C5_RangeEnforcement ==
    EncodeAttempted =>
        LET i == program[1]
            InRange(lo, hi) == ImmediateOf(i) >= lo /\ ImmediateOf(i) <= hi
            Enforced(lo, hi) ==
                /\ InRange(lo, hi) <=> EncodeAccepted
                /\ ~InRange(lo, hi) <=> EncodeOutOfBounds
        IN  /\ i.opcode \in Imm8Opcodes => Enforced(0 - 128, 255)
            /\ i.opcode \in {"J", "B"} => Enforced(0 - 128, 127)
            /\ i.opcode \in Simm4Opcodes \cup {"CLDI"} => Enforced(0 - 8, 7)

\* `testi r3, 256`, one past the unsigned 8 bit boundary, has been rejected
C5_Witness ==
    /\ EncodeAttempted
    /\ program[1].opcode = "TESTI"
    /\ ImmediateOf(program[1]) = 256
    /\ EncodeOutOfBounds

\* further cases of the claim: the boundary values are accepted
C5_BoundaryAccepted ==
    /\ EncodeAttempted
    /\ program[1].opcode = "CLDI"
    /\ ImmediateOf(program[1]) = 0 - 8
    /\ EncodeAccepted


(***************************************************************************)
(* Resolver: claims                                                        *)
(***************************************************************************)

Indices(prog) == 0 .. (Len(prog) - 1)

IsLabelDefinition(i) == i.opcode = "D_LABEL"

\* the program indices at which label `name` is defined
DefinitionsOf(prog, name) ==
    {k \in Indices(prog) :
        IsLabelDefinition(prog[k + 1]) /\ prog[k + 1].operands[1].value = name}

SetMin(S) == CHOOSE x \in S : \A y \in S : x <= y

SetMax(S) == CHOOSE x \in S : \A y \in S : x >= y

\* the definition of numeric label N nearest to index i in each direction
NearestForward(prog, N, i) ==
    LET S == {k \in DefinitionsOf(prog, N) : k >= i} IN
    IF S = {} THEN None ELSE Some(SetMin(S))

NearestBackward(prog, N, i) ==
    LET S == {k \in DefinitionsOf(prog, N) : k <= i} IN
    IF S = {} THEN None ELSE Some(SetMax(S))

Nearest(prog, ref, i) ==
    IF RelativeSuffix(ref) = "f"
    THEN NearestForward(prog, RelativeLabel(ref), i)
    ELSE NearestBackward(prog, RelativeLabel(ref), i)

\* the resolver has gone past instruction k without failing on it
Resolved(k) ==
    \/ phase = "resolve" /\ k < index
    \/ phase \in {"layout", "evaluate", "encode", "bytes", "write", "done"}
    \/ phase = "error" /\ Get(failure).pass # "resolve"

\* both loops of resolve_program have finished
ResolveReturned ==
    \/ phase \in {"layout", "evaluate", "encode", "bytes", "write", "done"}
    \/ phase = "error" /\ Get(failure).pass # "resolve"

\* the registration loop has finished
RegistrationDone ==
    /\ phase # "register"
    /\ phase = "error" => Get(failure).message # "label already defined"

\* the <<index, operand position>> pairs of the Offset operands of a program
OffsetOperands(prog) ==
    {ko \in Indices(prog) \X (1 .. 3) :
        /\ ko[2] <= Len(prog[ko[1] + 1].operands)
        /\ prog[ko[1] + 1].operands[ko[2]].kind = "Offset"}

OffsetAt(prog, ko) == prog[ko[1] + 1].operands[ko[2]].value

NumericNames == {<<"1">>, <<"2">>, <<"3">>}

AbsoluteNames(prog) ==
    {prog[k + 1].operands[1].value :
        k \in {j \in Indices(prog) :
                /\ IsLabelDefinition(prog[j + 1])
                /\ ~isdigit(prog[j + 1].operands[1].value)}}

Redefinitions(prog) ==
    {b \in Indices(prog) :
        /\ IsLabelDefinition(prog[b + 1])
        /\ ~isdigit(prog[b + 1].operands[1].value)
        /\ \E a \in 0 .. (b - 1) :
            a \in DefinitionsOf(prog, prog[b + 1].operands[1].value)}

\* C8: a program that defines a non-numeric name twice never gets past the
\* registration of the second definition: the run ends there with "already
\* defined", no address is ever assigned and the layouter never runs; no
\* other program gets this error, however often a numeric label is defined.
C8_DuplicateRejected ==
    /\ Redefinitions(program) # {} =>
        /\ phase \in {"register", "error"}
        /\ phase = "register" => index <= SetMin(Redefinitions(program))
        /\ phase = "error" =>
            /\ Get(failure).pass = "resolve"
            /\ Get(failure).message = "label already defined"
            /\ Get(failure).index = SetMin(Redefinitions(program))
        /\ current_address = 0
        /\ \A k \in Indices(program) : IsNone(program[k + 1].address)
        /\ IsNone(binary) /\ IsNone(outfile)
    /\ (phase = "error" /\ Get(failure).message = "label already defined") =>
        Redefinitions(program) # {}

\* `foo:` defined twice and never referenced, with `1:` defined twice before
C8_Witness ==
    /\ Len(program) = 4
    /\ DefinitionsOf(program, <<"1">>) = {0, 1}
    /\ DefinitionsOf(program, <<"f", "o", "o">>) = {2, 3}
    /\ phase = "error"
    /\ Get(failure).message = "label already defined"
    /\ Get(failure).index = 3


(***************************************************************************)
(* Layouter: claims                                                        *)
(***************************************************************************)

IsOrg(i) == i.opcode = "D_ORG"

IsReal(i) == i.opcode \notin {"D_ORG", "D_LABEL"}

\* the bytes an instruction takes up
WidthOf(i) == IF IsReal(i) THEN 2 ELSE 0

\* the layouter has gone past instruction k without failing on it
LaidOut(k) ==
    \/ phase = "layout" /\ k < index
    \/ phase \in {"evaluate", "encode", "bytes", "write", "done"}
    \/ phase = "error" /\ Get(failure).pass \in {"evaluate", "encode", "bytes"}

LayoutReturned ==
    \/ phase \in {"evaluate", "encode", "bytes", "write", "done"}
    \/ phase = "error" /\ Get(failure).pass \in {"evaluate", "encode", "bytes"}

\* the value of the address counter when the layouter reaches instruction k,
\* read off the address given to the instruction before it
CounterBefore(prog, k) ==
    IF k = 0 THEN 0 ELSE Get(prog[k].address) + WidthOf(prog[k])

RealsBefore(prog, k) ==
    Cardinality({j \in 0 .. (k - 1) : IsReal(prog[j + 1])})

RealsAfter(prog, k) == {j \in Indices(prog) : j > k /\ IsReal(prog[j + 1])}

\* C9: layout. The counter is 0 until the layouter starts; a real
\* instruction gets the counter value and moves the counter on by exactly 2,
\* a label definition gets the counter value and leaves it; so without .org
\* the k-th real instruction sits at 2k and a label at the address of the
\* next real instruction, and the binary of n real instructions has 2n bytes.
C9_Layout ==
    /\ phase \in {"register", "resolve"} => current_address = 0
    /\ (phase = "layout" /\ index = 0) => current_address = 0
    /\ \A k \in Indices(program) :
        LET i == program[k + 1] IN
        /\ ~LaidOut(k) /\ phase # "error" => IsNone(i.address)
        /\ (LaidOut(k) /\ ~IsOrg(i)) =>
            /\ i.address = Some(CounterBefore(program, k))
            /\ (phase = "layout" /\ index = k + 1) =>
                current_address = Get(i.address) + WidthOf(i)
    /\ (\A k \in Indices(program) : ~IsOrg(program[k + 1])) =>
        /\ \A k \in Indices(program) :
            LaidOut(k) =>
                /\ program[k + 1].address = Some(2 * RealsBefore(program, k))
                /\ (IsLabelDefinition(program[k + 1]) /\ LayoutReturned
                      /\ RealsAfter(program, k) # {}) =>
                    program[k + 1].address =
                        program[SetMin(RealsAfter(program, k)) + 1].address
        /\ phase = "done" =>
            Len(Get(binary)) = 2 * RealsBefore(program, Len(program))

\* `ldi r0, 5 / add r0, r0 / halt`: addresses 0, 2, 4 and a 6 byte binary
C9_Witness ==
    /\ phase = "done"
    /\ Len(program) = 3
    /\ program[1].opcode = "LDI" /\ program[1].address = Some(0)
    /\ program[2].opcode = "ADD" /\ program[2].address = Some(2)
    /\ program[3].opcode = "HALT" /\ program[3].address = Some(4)
    /\ Len(Get(binary)) = 6
    /\ outfile = binary

\* further case: a label before `halt` shares its address
C9_LabelWitness ==
    /\ phase = "done"
    /\ Len(program) = 4
    /\ program[1].opcode = "LDI"
    /\ IsLabelDefinition(program[2]) /\ program[2].address = Some(2)
    /\ IsLabelDefinition(program[3]) /\ program[3].address = Some(2)
    /\ program[4].opcode = "HALT" /\ program[4].address = Some(2)

\* C10: a .org below the counter ends the run in the layouter; one at or
\* above it is accepted, gets its value as address and sets the counter to
\* it. So the addresses of a laid out program never decrease in program
\* order and its real instructions lie strictly increasing, 2 or more apart.
C10_OrgMonotone ==
    /\ \A k \in Indices(program) :
        LET i == program[k + 1] IN
        /\ (LaidOut(k) /\ IsOrg(i)) =>
            /\ i.operands[1].value >= CounterBefore(program, k)
            /\ i.address = Some(i.operands[1].value)
            /\ (phase = "layout" /\ index = k + 1) =>
                current_address = i.operands[1].value
        /\ (phase = "layout" /\ index = k) =>
            current_address = CounterBefore(program, k)
        /\ (/\ phase = "error"
            /\ Get(failure).pass = "layout"
            /\ Get(failure).index = k) =>
            /\ IsOrg(i)
            /\ i.operands[1].value < current_address
            /\ current_address = CounterBefore(program, k)
            /\ IsNone(i.address)
    /\ \A j \in Indices(program), k \in Indices(program) :
        (j < k /\ LaidOut(k)) =>
            /\ Get(program[j + 1].address) <= Get(program[k + 1].address)
            /\ (IsReal(program[j + 1]) /\ IsReal(program[k + 1])) =>
                Get(program[j + 1].address) + 2 <= Get(program[k + 1].address)

\* `ldi / .org 2 / halt / .org 6`: an origin equal to the counter and one
\* above it are accepted
C10_Witness ==
    /\ phase = "done"
    /\ Len(program) = 4
    /\ program[1].opcode = "LDI" /\ program[1].address = Some(0)
    /\ IsOrg(program[2]) /\ program[2].address = Some(2)
    /\ program[3].opcode = "HALT" /\ program[3].address = Some(2)
    /\ IsOrg(program[4]) /\ program[4].address = Some(6)
    /\ Len(Get(binary)) = 4

\* further case: `ldi / ldi / .org 2` is rejected by the layouter
C10_RejectWitness ==
    /\ phase = "error"
    /\ Len(program) = 3
    /\ Get(failure).pass = "layout"
    /\ Get(failure).index = 2
    /\ program[3] = OrgDirective(2)
    /\ current_address = 4

(***************************************************************************)
(* Displacement specification: jumps and branches to labels, with origins  *)
(***************************************************************************)

Start == <<"s", "t", "a", "r", "t">>

Branch(c, name) == Instruction("B", <<Cond(c), OffsetOperand(name)>>)

DisplacementAlphabet ==
    {OrgDirective(16), LabelDefinition(Start), Jump(Start),
     Branch("Z", Start), Nop, LabelDefinition(<<"1">>), Jump(<<"1", "b">>)}

DisplacementPrograms ==
    ProgramsOver(DisplacementAlphabet)
    \cup {\* targets 126, 128 and 200 bytes away in either direction
          <<LabelDefinition(Start), OrgDirective(126), Jump(Start)>>,
          <<LabelDefinition(Start), OrgDirective(128), Jump(Start)>>,
          <<LabelDefinition(Start), OrgDirective(200), Jump(Start)>>,
          <<Jump(Start), OrgDirective(128), LabelDefinition(Start)>>,
          <<Branch("NE", Start), OrgDirective(126), LabelDefinition(Start)>>}

SpecDisplacement == Parsed(DisplacementPrograms, {None}) /\ [][AssemblerNext]_vars

(***************************************************************************)
(* Evaluator: claims                                                       *)
(***************************************************************************)

\* the evaluator has gone past instruction k without failing on it
Evaluated(k) ==
    \/ phase = "evaluate" /\ k < index
    \/ phase \in {"encode", "bytes", "write", "done"}
    \/ phase = "error" /\ Get(failure).pass \in {"encode", "bytes"}

\* the instruction an Offset operand is bound to
BoundTo(prog, ko) == prog[Get(OffsetAt(prog, ko).binding) + 1]

\* C11: displacement. Once the evaluator has passed an instruction, each of
\* its Offset operands holds the address of the bound label definition minus
\* the address of the instruction itself, negative for a label behind it;
\* before that the operand holds no displacement. The evaluator never fails
\* after resolution and layout, and an encoded `j` carries the low 8 bits of
\* the displacement in its upper byte over the fixed low byte 0x09.
C11_Displacement ==
    /\ phase = "error" => Get(failure).pass # "evaluate"
    /\ \A ko \in OffsetOperands(program) :
        LET i == program[ko[1] + 1]
            o == OffsetAt(program, ko)
        IN  /\ (~Evaluated(ko[1]) /\ phase # "error") => IsNone(o.offset)
            /\ Evaluated(ko[1]) =>
                /\ IsLabelDefinition(BoundTo(program, ko))
                /\ o.offset = Some(Get(BoundTo(program, ko).address)
                                   - Get(i.address))
                /\ (i.opcode = "J" /\ ~IsNone(i.encoding)) =>
                    /\ Get(o.offset) \in -128 .. 127
                    /\ i.encoding = Some(9 + 256 * (Get(o.offset) % 256))

\* `.org 0x10 / start: / j start`: displacement 0, word 0x0009
C11_Witness ==
    /\ phase = "done"
    /\ Len(program) = 3
    /\ program[1] = [OrgDirective(16) EXCEPT !.address = Some(16)]
    /\ IsLabelDefinition(program[2]) /\ program[2].address = Some(16)
    /\ program[3].opcode = "J" /\ program[3].address = Some(16)
    /\ program[3].operands[1].value.offset = Some(0)
    /\ program[3].encoding = Some(9)

\* further case: `j start / start:`, the label directly after the jump, +2
C11_ForwardWitness ==
    /\ phase = "done"
    /\ Len(program) = 2
    /\ program[1].opcode = "J" /\ program[1].address = Some(0)
    /\ program[2].address = Some(2)
    /\ program[1].operands[1].value.offset = Some(2)
    /\ program[1].encoding = Some(2 * 256 + 9)

\* further case: `start: / nop / nop / b.z start`, a label behind, -4
C11_BackwardWitness ==
    /\ phase = "done"
    /\ Len(program) = 4
    /\ program[4].opcode = "B" /\ program[4].address = Some(4)
    /\ program[4].operands[2].value.offset = Some(0 - 4)

(***************************************************************************)
(* Binary specification: instructions, labels and origins, assembled with  *)
(* and without a configured output size (-s)                               *)
(***************************************************************************)

BinaryAlphabet ==
    {Instruction("LDI", <<Reg(1), Imm(0 - 2)>>),
     Instruction("HALT", << >>),
     Nop,
     LabelDefinition(<<"1">>),
     OrgDirective(3), OrgDirective(6)}

\* args.size: absent, or any integer
OutputSizes == {None, Some(0 - 1), Some(0), Some(4), Some(6), Some(8)}

SpecBinary ==
    Parsed(ProgramsOver(BinaryAlphabet), OutputSizes) /\ [][AssemblerNext]_vars

(***************************************************************************)
(* convert_program_to_bytes: claims                                        *)
(***************************************************************************)

\* the indices of the instructions that carry an encoding
EncodedIndices(prog) ==
    {k \in Indices(prog) : ~IsNone(prog[k + 1].encoding)}

\* the length of the image: the end of the last encoded instruction
ImageLength(prog) ==
    IF EncodedIndices(prog) = {} THEN 0
    ELSE SetMax({Get(prog[k + 1].address) : k \in EncodedIndices(prog)}) + 2

\* the byte of the image at address a: the low byte of the instruction at a,
\* the high byte of the instruction at a - 1, zero elsewhere
ImageByte(prog, a) ==
    LET low == {k \in EncodedIndices(prog) : Get(prog[k + 1].address) = a}
        high == {k \in EncodedIndices(prog) : Get(prog[k + 1].address) + 1 = a}
    IN  IF low # {}
        THEN Get(prog[(CHOOSE k \in low : TRUE) + 1].encoding) % 256
        ELSE IF high # {}
        THEN (Get(prog[(CHOOSE k \in high : TRUE) + 1].encoding) \div 256) % 256
        ELSE 0

Image(prog) == [p \in 1 .. ImageLength(prog) |-> ImageByte(prog, p - 1)]

BytesReturned == phase \in {"write", "done"}

\* C12: binary placement. With no size configured the returned buffer holds,
\* for every encoded instruction at address a, the low byte of its encoding
\* at a and the high byte at a + 1; every other byte is zero; .org and label
\* directives carry no encoding and contribute no bytes; the buffer ends 2
\* bytes after the address of the last real instruction and is empty when
\* there is none.
C12_BinaryPlacement ==
    (BytesReturned /\ IsNone(output_size)) =>
        LET buffer == Get(binary) IN
        /\ \A k \in Indices(program) :
            LET i == program[k + 1] IN
            /\ IsReal(i) <=> ~IsNone(i.encoding)
            /\ IsReal(i) =>
                /\ Get(i.address) + 2 <= Len(buffer)
                /\ buffer[Get(i.address) + 1] = Get(i.encoding) % 256
                /\ buffer[Get(i.address) + 2] =
                    (Get(i.encoding) \div 256) % 256
        /\ \A p \in 1 .. Len(buffer) :
            (\A k \in EncodedIndices(program) :
                p - 1 \notin {Get(program[k + 1].address),
                              Get(program[k + 1].address) + 1}) =>
                buffer[p] = 0
        /\ Len(buffer) = ImageLength(program)
        /\ (\A k \in Indices(program) : ~IsReal(program[k + 1])) =>
            buffer = << >>
        /\ buffer = Image(program)

\* `.org 3 / ldi r1, -2 / .org 6 / halt`: 0xFE28 at 3 and 0x0009 at 6, zeros
\* in the gaps
C12_Witness ==
    /\ phase = "done"
    /\ IsNone(output_size)
    /\ Len(program) = 4
    /\ IsOrg(program[1])
    /\ program[2].opcode = "LDI" /\ program[2].address = Some(3)
    /\ IsOrg(program[3])
    /\ program[4].opcode = "HALT" /\ program[4].address = Some(6)
    /\ binary = Some(<<0, 0, 0, 40, 254, 0, 9, 0>>)
    /\ outfile = binary

\* further case: only directives, an empty buffer
C12_EmptyWitness ==
    /\ phase = "done"
    /\ IsNone(output_size)
    /\ Len(program) = 2
    /\ IsOrg(program[1]) /\ IsLabelDefinition(program[2])
    /\ binary = Some(<< >>)

\* C13: output size. With a size S configured, serialization fails, and the
\* run ends with no output file written, exactly when the unpadded image is
\* longer than S; otherwise the returned buffer has S bytes: the unpadded
\* image followed by zeros only. An image of exactly S bytes is accepted.
C13_OutputSize ==
    /\ phase # "done" => IsNone(outfile)
    /\ ~IsNone(output_size) =>
        LET S == Get(output_size) IN
        /\ BytesReturned =>
            /\ ImageLength(program) <= S
            /\ Len(Get(binary)) = S
            /\ SubSeq(Get(binary), 1, ImageLength(program)) = Image(program)
            /\ \A p \in (ImageLength(program) + 1) .. S : Get(binary)[p] = 0
        /\ (phase = "error" /\ Get(failure).pass = "bytes") =>
            /\ ImageLength(program) > S
            /\ IsNone(binary)
            /\ IsNone(outfile)
        /\ phase = "done" => outfile = binary

\* `ldi r1, -2 / ldi r1, -2 / halt` with -s 4: 6 bytes do not fit
C13_Witness ==
    /\ phase = "error"
    /\ Get(failure).pass = "bytes"
    /\ output_size = Some(4)
    /\ Len(program) = 3
    /\ program[3].address = Some(4)
    /\ program[3].encoding = Some(9)
    /\ IsNone(outfile)

\* further case: `ldi r1, -2 / ldi r1, -2 / halt` with -s 6 fits exactly
C13_ExactWitness ==
    /\ phase = "done"
    /\ output_size = Some(6)
    /\ Len(program) = 3
    /\ outfile = Some(<<40, 254, 40, 254, 9, 0>>)

\* further case: `.org 3 / halt` with -s 8 is padded with three zeros
C13_PaddedWitness ==
    /\ phase = "done"
    /\ output_size = Some(8)
    /\ Len(program) = 2
    /\ outfile = Some(<<0, 0, 0, 9, 0, 0, 0, 0>>)

(***************************************************************************)
(* InstructionEncoder: fixed words                                         *)
(***************************************************************************)

\* the encoder has gone past instruction k without failing on it
Encoded(k) ==
    \/ phase = "encode" /\ k < index
    \/ phase \in {"bytes", "write", "done"}
    \/ phase = "error" /\ Get(failure).pass = "bytes"

\* C14: fixed words. Wherever a `halt` or a `nop` stands in the program, at
\* whatever address and between whatever instructions, the encoder gives
\* `halt` the word 0x0009 and `nop` the word 0x0000, and never fails on
\* either.
C14_FixedWords ==
    /\ \A k \in Indices(program) :
        LET i == program[k + 1] IN
        /\ (Encoded(k) /\ i.opcode = "HALT") => i.encoding = Some(9)
        /\ (Encoded(k) /\ i.opcode = "NOP") => i.encoding = Some(0)
    /\ (phase = "error" /\ Get(failure).pass = "encode") =>
        program[Get(failure).index + 1].opcode \notin {"HALT", "NOP"}

\* `ldi r1, -2 / nop / .org 6 / halt`: nop at 2, halt at 6 after an origin
C14_Witness ==
    /\ phase = "done"
    /\ Len(program) = 4
    /\ program[1].opcode = "LDI"
    /\ program[2].opcode = "NOP" /\ program[2].address = Some(2)
    /\ program[2].encoding = Some(0)
    /\ IsOrg(program[3])
    /\ program[4].opcode = "HALT" /\ program[4].address = Some(6)
    /\ program[4].encoding = Some(9)

\* further case: `halt` first, at address 0, followed by other instructions
C14_FirstWitness ==
    /\ phase = "done"
    /\ Len(program) = 3
    /\ program[1].opcode = "HALT" /\ program[1].address = Some(0)
    /\ program[1].encoding = Some(9)
    /\ program[2].opcode = "NOP" /\ program[3].opcode = "LDI"

(***************************************************************************)
(* Error specification: programs with faults for several passes at once    *)
(***************************************************************************)

Foo == <<"f", "o", "o">>

ErrorAlphabet ==
    {Jump(Foo), LabelDefinition(Foo), OrgDirective(0), OrgDirective(6),
     Instruction("LDI", <<Reg(0), Imm(300)>>), Nop}

SpecErrors ==
    Parsed(ProgramsOver(ErrorAlphabet), {None, Some(2)})
        /\ [][AssemblerNext]_vars

(***************************************************************************)
(* error(): claims                                                         *)
(***************************************************************************)

\* the Offset operands whose name no label definition can satisfy
UnboundReferences(prog) ==
    {ko \in OffsetOperands(prog) :
        LET name == OffsetAt(prog, ko).name IN
        IF IsRelativeReference(name)
        THEN IsNone(Nearest(prog, name, ko[1]))
        ELSE DefinitionsOf(prog, name) = {}}

\* what only the resolver can report
ResolveFault(prog) ==
    Redefinitions(prog) # {} \/ UnboundReferences(prog) # {}

\* the address counter after the first k instructions, every origin taken
RECURSIVE AddressCounter(_, _)
AddressCounter(prog, k) ==
    IF k = 0 THEN 0
    ELSE IF IsOrg(prog[k]) THEN prog[k].operands[1].value
    ELSE AddressCounter(prog, k - 1) + WidthOf(prog[k])

\* what only the layouter can report: an origin behind the counter
LayoutFault(prog) ==
    \E k \in 1 .. Len(prog) :
        IsOrg(prog[k]) /\ prog[k].operands[1].value < AddressCounter(prog, k - 1)

\* what only the encoder can report: an 8 bit immediate out of range
EncodeFault(prog) ==
    \E k \in 1 .. Len(prog) :
        /\ prog[k].opcode = "LDI"
        /\ prog[k].operands[2].value \notin -128 .. 255

\* the pass an error of the program is reported by, taking the passes in
\* the order resolve, layout, encode
FirstFaultyPass(prog) ==
    IF ResolveFault(prog) THEN "resolve"
    ELSE IF LayoutFault(prog) THEN "layout"
    ELSE IF EncodeFault(prog) THEN "encode"
    ELSE "none"

\* the passes after `pass` have left no trace in the program
NoLaterPassRan(pass) ==
    /\ pass = "resolve" =>
        /\ current_address = 0
        /\ \A k \in Indices(program) : IsNone(program[k + 1].address)
    /\ pass \in {"resolve", "layout"} =>
        \A ko \in OffsetOperands(program) : IsNone(OffsetAt(program, ko).offset)
    /\ pass \in {"resolve", "layout", "evaluate"} =>
        \A k \in Indices(program) : IsNone(program[k + 1].encoding)
    /\ IsNone(binary)
    /\ IsNone(outfile)

C15_LayoutWitness ==
    /\ phase = "error"
    /\ Len(program) = 3
    /\ EncodeFault(program)
    /\ Get(failure).pass = "layout"
    /\ Get(failure).index = 2

\* further cases: failures of the encoder and of the serialization
C15_EncodeWitness ==
    /\ phase = "error"
    /\ Get(failure).pass = "encode"
    /\ Get(failure).index = 1
    /\ ~IsNone(output_size)

C15_BytesWitness ==
    /\ phase = "error"
    /\ Get(failure).pass = "bytes"
    /\ \E k \in Indices(program) : program[k + 1].opcode = "J"

(***************************************************************************)
(* Comment specification: texts of statements, newlines and comments are   *)
(* parsed                                                                  *)
(***************************************************************************)

CommentPieces ==
    {<<"n", "o", "p">>, <<"h", "a", "l", "t">>, <<"\n">>,
     <<"#", "c">>, <<"/", "/", "c">>, <<"/", "*", "c", "*", "/">>}

SpecComments ==
    Invoked(TextsOver(CommentPieces), {None}) /\ [][ParserNext]_vars

(***************************************************************************)
(* AssemblyParser.skip: claims                                             *)
(***************************************************************************)

\* the text without its comments: a line comment runs from `#` or `//` to
\* the end of its line, a block comment from `/*` to the next `*/`; the
\* first leaves a newline behind, the second a space
RECURSIVE StripComments(_)
StripComments(text) ==
    LET newlines == {k \in 1 .. Len(text) : text[k] = "\n"}
        ends == {k \in 4 .. Len(text) : text[k - 1] = "*" /\ text[k] = "/"}
    IN  IF Len(text) = 0 THEN << >>
        ELSE IF StartsWith(text, <<"#">>) \/ StartsWith(text, <<"/", "/">>)
        THEN IF newlines = {} THEN << >>
             ELSE <<"\n">> \o StripComments(Drop(text, SetMin(newlines)))
        ELSE IF StartsWith(text, <<"/", "*">>) /\ ends # {}
        THEN <<" ">> \o StripComments(Drop(text, SetMin(ends)))
        ELSE <<text[1]>> \o StripComments(Tail(text))

\* parse_program has returned or has ended the run
ParseEnded ==
    \/ phase = "register"
    \/ phase = "error" /\ Get(failure).pass = "parse"

\* the number of block comments of a text
BlockComments(text) ==
    Cardinality({k \in 2 .. Len(text) : text[k - 1] = "/" /\ text[k] = "*"})

\* the last line of the text is not terminated and holds a line comment
OpenLastLine(text) ==
    \E k \in 1 .. Len(text) :
        /\ text[k] = "#" \/ (k < Len(text) /\ text[k] = "/" /\ text[k + 1] = "/")
        /\ \A j \in k .. Len(text) : text[j] # "\n"

\* C17: comments are insignificant. The program parsed from a text is the
\* program parsed from the same text with its comments taken out, and the
\* one parse fails exactly when the other does; so statements between two
\* block comments are parsed and a line comment on an unterminated last
\* line is skipped.
C17_CommentsInsignificant ==
    ParseEnded =>
        LET plain == parse_program(StripComments(input_file)) IN
        /\ phase = "error" <=> ~IsNone(plain.error)
        /\ phase = "register" => program = plain.program

\* the extent of the divergence: texts with at most one block comment and
\* no line comment on an unterminated last line parse as their plain text
C17_Extent ==
    (/\ ParseEnded
     /\ BlockComments(input_file) <= 1
     /\ ~OpenLastLine(input_file)) =>
        LET plain == parse_program(StripComments(input_file)) IN
        /\ phase = "error" <=> ~IsNone(plain.error)
        /\ phase = "register" => program = plain.program

\* `/*c*/nop/*c*/`: the statement between the comments is lost
C17_BlockWitness ==
    /\ phase = "register"
    /\ input_file = <<"/", "*", "c", "*", "/", "n", "o", "p",
                      "/", "*", "c", "*", "/">>
    /\ program = << >>

\* `nop#c`: the comment on the unterminated last line is not skipped
C17_LastLineWitness ==
    /\ phase = "error"
    /\ input_file = <<"n", "o", "p", "#", "c">>
    /\ Get(failure).message = "unknown instruction"
    /\ program = <<Nop>>

\* `nop//c`, newline, `halt`: a terminated comment is skipped
C17_SkippedWitness ==
    /\ phase = "register"
    /\ input_file = <<"n", "o", "p", "/", "/", "c", "\n",
                      "h", "a", "l", "t">>
    /\ program = <<Nop, Instruction("HALT", << >>)>>

(***************************************************************************)
(* Listing specification: a parsed program with one statement of every     *)
(* shape is assembled, printed with its address and encoding columns, and  *)
(* the listing, the columns left out, is assembled again.                  *)
(***************************************************************************)

ListedImm8 == {0 - 128, 0 - 1, 0, 5, 255}

ListedSimm4 == {0 - 8, 0 - 1, 0, 7}

ListedDisplacements == {Imm(v) : v \in {0 - 128, 0 - 2, 0, 2, 127}}

ListedLabels ==
    {OffsetOperand(name) : name \in {Start, <<"1", "f">>, <<"1", "b">>}}

ListedStatements ==
    {Nop, Instruction("HALT", << >>)}
    \cup {Instruction(op, <<Reg(rd)>>) : op \in RdOpcodes, rd \in Registers}
    \cup {Instruction(op, <<Reg(rd), Reg(rs)>>) :
            op \in RdRsOpcodes, rd \in Registers, rs \in Registers}
    \cup {Instruction(op, <<Reg(rd), Imm(v)>>) :
            op \in Imm8Opcodes, rd \in Registers, v \in ListedImm8}
    \cup {Instruction(op, <<Reg(rd), Imm(v)>>) :
            op \in Simm4Opcodes, rd \in Registers, v \in ListedSimm4}
    \cup {Instruction("JR", <<RegPair(lo)>>) : lo \in RegisterPairs}
    \cup {Instruction("JRO", <<Reg(rs)>>) : rs \in Registers}
    \cup {Instruction("J", <<t>>) : t \in ListedDisplacements}
    \cup {Instruction("BR", <<Cond(c), RegPair(lo)>>) :
            c \in Condition, lo \in RegisterPairs}
    \cup {Instruction("BRO", <<Cond(c), Reg(rs)>>) :
            c \in Condition, rs \in Registers}
    \cup {Instruction("B", <<Cond(c), t>>) :
            c \in Condition, t \in ListedDisplacements}
    \cup {Instruction("CMV", <<Cond(c), Reg(rd), Reg(rs)>>) :
            c \in Condition, rd \in Registers, rs \in Registers}
    \cup {Instruction("CLDI", <<Cond(c), Reg(rd), Imm(v)>>) :
            c \in Condition, rd \in Registers, v \in ListedSimm4}

\* the statements that name a label
ListedReferences ==
    {Instruction("J", <<t>>) : t \in ListedLabels}
    \cup {Instruction("B", <<Cond(c), t>>) :
            c \in Condition, t \in ListedLabels}

\* .org 0x1AF0 / 1: / start: / statement / 1:
ListingsOf(statements) ==
    {<<OrgDirective(6896), LabelDefinition(<<"1">>), LabelDefinition(Start),
       statement, LabelDefinition(<<"1">>)>> :
        statement \in statements}

ListingInit ==
    \/ Parsed(ListingsOf(ListedStatements), {None})
    \/ Parsed(ListingsOf(ListedReferences), {None})

ListingNext ==
    \/ AssemblerNext
    \/ PrintAssembly
    \/ AssembleListing
    \/ ParserNext

SpecListing == ListingInit /\ [][ListingNext]_vars

\* two statements are the same instruction with the same operands; an offset
\* is compared by the label it names
SameStatement(a, b) ==
    /\ a.opcode = b.opcode
    /\ Len(a.operands) = Len(b.operands)
    /\ \A k \in 1 .. Len(a.operands) :
        /\ a.operands[k].kind = b.operands[k].kind
        /\ IF a.operands[k].kind = "Offset"
           THEN a.operands[k].value.name = b.operands[k].value.name
           ELSE a.operands[k].value = b.operands[k].value

\* C16: print round trip. When the listing printed for an assembled program
\* is assembled again, its address and encoding columns left out, parsing
\* does not fail, every statement parsed is the statement of the same
\* position of the first program (same instruction, same operands), the
\* second run fails in no pass, gives every statement the address and the
\* encoding it had, and writes the same binary.
C16_PrintRoundTrip ==
    ~IsNone(previous) =>
        LET first == Get(previous).program
        IN  /\ phase # "error"
            /\ Len(program) <= Len(first)
            /\ phase \notin {"start", "parse"} => Len(program) = Len(first)
            /\ \A k \in 1 .. Len(program) :
                /\ SameStatement(program[k], first[k])
                /\ Encoded(k - 1) =>
                    /\ program[k].address = first[k].address
                    /\ program[k].encoding = first[k].encoding
            /\ phase = "done" => binary = Get(previous).binary

\* the listing of `b.uge 1b` has been assembled a second time
C16_Witness ==
    /\ ~IsNone(previous)
    /\ phase = "done"
    /\ Len(program) = 5
    /\ program[4].opcode = "B"
    /\ program[4].operands[1] = Cond("UGE")
    /\ program[4].operands[2].kind = "Offset"
    /\ program[4].operands[2].value.name = <<"1", "b">>
    /\ program[4].encoding = Get(previous).program[4].encoding

\* the listing of `ldi r3, -128` has been parsed again
C16_ImmediateWitness ==
    /\ ~IsNone(previous)
    /\ phase = "register"
    /\ Len(program) = 5
    /\ program[4] = Instruction("LDI", <<Reg(3), Imm(0 - 128)>>)

\* the listing of `jr r6r5` has been parsed again
C16_PairWitness ==
    /\ ~IsNone(previous)
    /\ phase = "register"
    /\ Len(program) = 5
    /\ program[4] = Instruction("JR", <<RegPair(5)>>)

(***************************************************************************)
(* Condition codes: alias names                                            *)
(***************************************************************************)

\* the other name of a condition that has two names
AliasName ==
    [c \in {"EQ", "Z", "NE", "NZ", "UGE", "C", "ULT", "NC"} |->
        CASE c = "EQ" -> "Z" [] c = "Z" -> "EQ"
          [] c = "NE" -> "NZ" [] c = "NZ" -> "NE"
          [] c = "UGE" -> "C" [] c = "C" -> "UGE"
          [] c = "ULT" -> "NC" [] c = "NC" -> "ULT"]

\* the four bits the pairs are said to have
AliasBits ==
    [c \in DOMAIN AliasName |->
        CASE c \in {"EQ", "Z"} -> 4
          [] c \in {"NE", "NZ"} -> 5
          [] c \in {"UGE", "C"} -> 2
          [] c \in {"ULT", "NC"} -> 3]

\* the condition field of an encoded word: bits 4..7 of a branch, bits
\* 12..15 of a conditional move
ConditionField(opcode, word) ==
    IF opcode \in {"CMV", "CLDI"} THEN word \div 4096
    ELSE (word \div 16) % 16

\* statement k of the program is conditional on a condition with two names
AliasedAt(k) ==
    /\ program[k].opcode \in {"BR", "BRO", "B", "CMV", "CLDI"}
    /\ program[k].operands[1].value \in DOMAIN AliasName

\* the program with the condition of statement k written by its other name
Renamed(k) ==
    [program EXCEPT
        ![k].operands[1] = Cond(AliasName[program[k].operands[1].value])]

\* C18: condition aliases. Each of the 18 condition names has a 4-bit
\* encoding, with eq = z = 0b0100, ne = nz = 0b0101, uge = c = 0b0010 and
\* ult = nc = 0b0011. An instruction written with one name of an alias pair
\* is encoded with these bits in its condition field and to the same word as
\* the instruction written with the other name; yet the listing printed for
\* it differs from the listing of the instruction under the other name, and
\* the name parsed back from the listing is the name that was written.
C18_ConditionAliases ==
    /\ \A c \in Condition : CONDITION_ENCODING[c] \in 0 .. 15
    /\ \A k \in 1 .. Len(program) :
        AliasedAt(k) =>
            LET c == program[k].operands[1].value
            IN  /\ CONDITION_ENCODING[c] = AliasBits[c]
                /\ CONDITION_ENCODING[AliasName[c]] = AliasBits[c]
                /\ Encoded(k - 1) =>
                    /\ ~IsNone(program[k].encoding)
                    /\ ConditionField(program[k].opcode,
                                      Get(program[k].encoding)) = AliasBits[c]
                    /\ LET e == encode_instruction(EncoderStart,
                                                   Renamed(k)[k])
                       IN  /\ e.encoding = program[k].encoding
                           /\ IsNone(e.error)
                /\ (IsNone(previous) /\ ~IsNone(printed)) =>
                    Get(printed) # print(Renamed(k)) \o <<"\n">>
                /\ ~IsNone(previous) =>
                    /\ c = Get(previous).program[k].operands[1].value
                    /\ c # AliasName[c]

\* `cmv.ult r2, r5` has been encoded: condition bits 0b0011
C18_Witness ==
    /\ IsNone(previous)
    /\ phase = "done"
    /\ ~IsNone(printed)
    /\ Len(program) = 5
    /\ program[4].opcode = "CMV"
    /\ program[4].operands = <<Cond("ULT"), Reg(2), Reg(5)>>
    /\ program[4].encoding = Some(3 * 4096 + 6 * 256 + 3 * 16 + 2)

\* the same instruction under the other name has the same word
C18_OtherNameWitness ==
    /\ IsNone(previous)
    /\ phase = "done"
    /\ ~IsNone(printed)
    /\ Len(program) = 5
    /\ program[4].opcode = "CMV"
    /\ program[4].operands = <<Cond("NC"), Reg(2), Reg(5)>>
    /\ program[4].encoding = Some(3 * 4096 + 6 * 256 + 3 * 16 + 2)

\* `b.z 1f` has been parsed back from a listing as `b.z`, not `b.eq`
C18_ParsedWitness ==
    /\ ~IsNone(previous)
    /\ phase = "register"
    /\ Len(program) = 5
    /\ program[4].opcode = "B"
    /\ program[4].operands[1] = Cond("Z")
    /\ program[4].operands[2].kind = "Offset"

(***************************************************************************)
(* Two runs: the assembler is run on a source text and, when the process   *)
(* has ended, is run again on the same text with the same --size.          *)
(***************************************************************************)

\* nop / foo: / j foo / .org 6 / ldi r0, 300, one statement to a line
RepeatedPieces ==
    {<<"n", "o", "p", "\n">>,
     <<"f", "o", "o", ":", "\n">>,
     <<"j", " ", "f", "o", "o", "\n">>,
     <<".", "o", "r", "g", " ", "6", "\n">>,
     <<"l", "d", "i", " ", "r", "0", ",", "3", "0", "0", "\n">>}

\* the process has ended, by the end of main or by sys.exit, and the same
\* command is run again
RunAgain ==
    /\ phase \in {"done", "error"}
    /\ IsNone(previous)
    /\ previous' = Some(RunResult)
    /\ FreshProcess
    /\ UNCHANGED <<output_size, decoded, input_file, printed>>
    /\ UNCHANGED decoderVars

RepeatedNext ==
    \/ ParserNext
    \/ AssemblerNext
    \/ RunAgain

SpecRepeated ==
    Invoked(TextsOver(RepeatedPieces), {None, Some(4)})
    /\ [][RepeatedNext]_vars

C19_FailedWitness ==
    /\ ~IsNone(previous)
    /\ phase = "error"
    /\ ~IsNone(failure)
    /\ Get(failure).pass = "encode"

(***************************************************************************)
(* decoder/decoder.py: write_rom                                           *)
(***************************************************************************)

\* a call of write_rom for the file `name` with the bytes `data`: a file
\* that holds exactly the data is left alone, any other is written
WriteRomStep(name, data) ==
    IF rom_files[name] = Some(data)
    THEN /\ rom_writes' = rom_writes
         /\ rom_files' = rom_files
    ELSE /\ rom_writes' = Append(rom_writes, name)
         /\ rom_files' = [rom_files EXCEPT ![name] = Some(data)]

\* C20: write_rom is idempotent. A call of write_rom on a file that exists
\* and holds exactly the data does not open the file for writing and leaves
\* it as it is; any other call writes the data. So whenever a run of the
\* generator has ended both files hold the generated ROMs, and a run that
\* follows another run opens no file for writing.
C20_WriteRomIdempotent ==
    /\ [][/\ (rom_pc = "done" /\ rom_pc' = "write1")
                => WriteRomStep("rom0", rom0_bytes)
          /\ (rom_pc = "write1" /\ rom_pc' = "end")
                => WriteRomStep("rom1", rom1_bytes)]_vars
    /\ [](rom_pc = "end" =>
            /\ rom_files.rom0 = Some(generated0)
            /\ rom_files.rom1 = Some(generated1))
    /\ [](rom_runs >= 1 => rom_writes = << >>)

\* a second run has ended without a write
C20_Witness ==
    /\ rom_runs = 1
    /\ rom_pc = "end"
    /\ rom_writes = << >>
    /\ rom_files.rom0 = Some(rom0_bytes)
    /\ rom_files.rom1 = Some(rom1_bytes)

\* a first run that found no file has written both
C20_WrittenWitness ==
    /\ rom_runs = 0
    /\ rom_pc = "end"
    /\ rom_writes = <<"rom0", "rom1">>

\* a first run that found rom0.bin identical and rom1.bin not has written
\* the second only
C20_SkippedWitness ==
    /\ rom_runs = 0
    /\ rom_pc = "end"
    /\ rom_writes = <<"rom1">>
    /\ rom_lo = 3 * RomWindow

(***************************************************************************)
(* InstructionEncoder: coverage of the word                                *)
(***************************************************************************)

\* the encode_bits calls the encoder makes for instruction i
WritesOf(i) == encode_instruction(EncoderStart, i).written

\* the calls among `written` that write bit b
WritersOf(written, b) ==
    {k \in 1 .. Len(written) :
        written[k][1] <= b /\ b < written[k][1] + written[k][2]}

\* C21: exhaustive nibble coverage. For every instruction the encoder
\* accepts, the encode_bits calls it makes (function constants, condition,
\* registers, immediate) write each of the four nibbles of the word exactly
\* once: no bit of the word is left unwritten and no call writes a bit an
\* earlier call has written.
C21_NibbleCoverage ==
    (EncodeAttempted /\ EncodeAccepted) =>
        LET written == WritesOf(program[1])
        IN  /\ \A b \in 0 .. 15 : Cardinality(WritersOf(written, b)) = 1
            /\ \A k \in 1 .. Len(written) :
                written[k][1] % 4 = 0 /\ written[k][2] % 4 = 0

\* `cmv.sgt r0, r6` has been encoded by four writes of one nibble each
C21_Witness ==
    /\ EncodeAttempted
    /\ EncodeAccepted
    /\ program[1].opcode = "CMV"
    /\ program[1].operands = <<Cond("SGT"), Reg(0), Reg(6)>>
    /\ WritesOf(program[1]) = <<<<0, 4>>, <<12, 4>>, <<4, 4>>, <<8, 4>>>>

\* `shra r2`, of the unary shape, has been encoded
C21_UnaryWitness ==
    /\ EncodeAttempted
    /\ EncodeAccepted
    /\ program[1].opcode = "SHRA"
    /\ WritesOf(program[1]) = <<<<0, 4>>, <<12, 4>>, <<8, 4>>, <<4, 4>>>>

\* `nop` has been encoded by one write of the whole word
C21_WholeWordWitness ==
    /\ EncodeAttempted
    /\ EncodeAccepted
    /\ program[1].opcode = "NOP"
    /\ WritesOf(program[1]) = <<<<0, 16>>>>

(***************************************************************************)
(* Passes: what each may write                                             *)
(***************************************************************************)

\* the field the pass of a phase writes
FieldOf(p) ==
    CASE p = "resolve" -> "binding"
      [] p = "layout" -> "address"
      [] p = "evaluate" -> "offset"
      [] p = "encode" -> "encoding"
      [] OTHER -> "none"

\* instruction b is instruction a but for the field named
SameBut(a, b, field) ==
    /\ b.opcode = a.opcode
    /\ Len(b.operands) = Len(a.operands)
    /\ \A j \in 1 .. Len(a.operands) :
        /\ b.operands[j].kind = a.operands[j].kind
        /\ IF a.operands[j].kind = "Offset"
           THEN /\ b.operands[j].value.name = a.operands[j].value.name
                /\ field # "binding" =>
                    b.operands[j].value.binding = a.operands[j].value.binding
                /\ field # "offset" =>
                    b.operands[j].value.offset = a.operands[j].value.offset
           ELSE b.operands[j].value = a.operands[j].value
    /\ field # "address" => b.address = a.address
    /\ field # "encoding" => b.encoding = a.encoding

\* C22: the program is never restructured after parsing. Every step of the
\* Resolver, the Layouter, the Evaluator and the InstructionEncoder, and
\* every step after them, leaves the length of the program, the order of
\* its instructions, their opcodes, operand kinds, literal values and label
\* names as they are; a step of a pass changes at most the field of that
\* pass (binding, address, offset, encoding in this order) and no field
\* written by another pass.
C22_NeverRestructured ==
    [][/\ Len(program') = Len(program)
       /\ \A k \in 1 .. Len(program) :
            SameBut(program[k], program'[k], FieldOf(phase))]_vars

\* `start:`, `.org 126`, `j start` has gone through all four passes
C22_Witness ==
    /\ phase = "done"
    /\ Len(program) = 3
    /\ program[1] = [LabelDefinition(Start) EXCEPT !.address = Some(0)]
    /\ program[3].opcode = "J"
    /\ program[3].operands[1].value =
        [name |-> Start, binding |-> Some(0), offset |-> Some(0 - 126)]
    /\ program[3].address = Some(126)
    /\ program[3].encoding = Some(130 * 256 + 9)

(***************************************************************************)
(* InstructionEncoder: directives                                          *)
(***************************************************************************)

\* C23: once the encoder has handled an instruction, and so after a
\* successful encode pass for every instruction of the program, an `.org`
\* or label definition has no encoding (absent, not the word 0) and every
\* other instruction, nop and halt included, has an encoding that is a
\* number in 0 .. 65535.
C23_DirectivesUnencoded ==
    \A k \in 1 .. Len(program) :
        Encoded(k - 1) =>
            IF IsReal(program[k])
            THEN /\ ~IsNone(program[k].encoding)
                 /\ Get(program[k].encoding) \in 0 .. 65535
            ELSE IsNone(program[k].encoding)

\* `.org`, two labels, `nop`, a label: the pass has ended, the nop has the
\* word 0 and the directives have none
C23_Witness ==
    /\ phase = "bytes"
    /\ IsNone(previous)
    /\ Len(program) = 5
    /\ program[4].opcode = "NOP"
    /\ program[4].encoding = Some(0)
    /\ program[1].opcode = "D_ORG"
    /\ program[1].encoding = None
    /\ program[5].opcode = "D_LABEL"
    /\ program[5].encoding = None

\* `halt` between the directives
C23_HaltWitness ==
    /\ phase = "done"
    /\ IsNone(previous)
    /\ Len(program) = 5
    /\ program[4].opcode = "HALT"
    /\ program[4].encoding = Some(9)
    /\ program[3].encoding = None

(***************************************************************************)
(* Passes: what each reads                                                 *)
(***************************************************************************)

\* the instruction the running pass handles next, if there is one
AtHand(p) == phase = p /\ index < Len(program)

\* the Offset operands of the instruction at hand
OffsetsAtHand ==
    {program[index + 1].operands[j].value :
        j \in {j \in 1 .. Len(program[index + 1].operands) :
                    program[index + 1].operands[j].kind = "Offset"}}

\* C24: pass ordering. No pass reads a field an earlier pass has not
\* written: whenever the Evaluator is about to handle an instruction, each
\* of its Offset operands is bound, the bound instruction has an address and
\* so has the instruction itself; whenever the Encoder is about to handle an
\* instruction, each of its Offset operands has its displacement; and no run
\* ends by the exception that a read of None raises.
C24_PassOrdering ==
    /\ AtHand("evaluate") =>
        \A off \in OffsetsAtHand :
            /\ ~IsNone(off.binding)
            /\ ~IsNone(program[Get(off.binding) + 1].address)
            /\ ~IsNone(program[index + 1].address)
    /\ AtHand("encode") =>
        \A off \in OffsetsAtHand : ~IsNone(off.offset)
    /\ ~IsNone(failure) =>
        Get(failure).message \notin {"AttributeError", "TypeError"}

\* the Evaluator is about to handle `j start`, whose label is defined
\* further down
C24_Witness ==
    /\ AtHand("evaluate")
    /\ index = 0
    /\ Len(program) = 3
    /\ program[1].opcode = "J"
    /\ program[1].operands[1].value.binding = Some(2)
    /\ program[3].address = Some(128)

\* the Encoder is about to handle `b.z start`
C24_EncoderWitness ==
    /\ AtHand("encode")
    /\ program[index + 1].opcode = "B"
    /\ program[index + 1].operands[2].value.offset = Some(0 - 2)

(***************************************************************************)
(* Far specification: programs laid out at the end of the 16 bit address   *)
(* space and past it                                                       *)
(***************************************************************************)

\* .org 0xFFFE / .org 0x10000 / nop / 1:
FarAlphabet ==
    {OrgDirective(65534), OrgDirective(65536), Nop, LabelDefinition(<<"1">>)}

SpecFar == Parsed(ProgramsOver(FarAlphabet), {None}) /\ [][AssemblerNext]_vars

(***************************************************************************)
(* Layouter: range of the addresses                                        *)
(***************************************************************************)

\* C25: every address the Layouter has assigned to an instruction of a
\* successfully assembled program is an unsigned 16 bit value: it lies in
\* 0 .. 65535, whatever the instructions and .org directives are.
C25_AddressesUnsigned16 ==
    phase = "done" =>
        \A k \in 1 .. Len(program) :
            ~IsNone(program[k].address) =>
                Get(program[k].address) \in 0 .. 65535

\* what does hold: no address is negative, and an address past 0xFFFF is
\* that of an .org with such a value or follows, by layout, from a counter
\* that .org or the instructions before have carried there
C25_Extent ==
    \A k \in Indices(program) :
        ~IsNone(program[k + 1].address) =>
            /\ Get(program[k + 1].address) >= 0
            /\ Get(program[k + 1].address) > 65535 =>
                \/ /\ IsOrg(program[k + 1])
                   /\ program[k + 1].operands[1].value > 65535
                \/ \E j \in 0 .. (k - 1) :
                    /\ ~IsNone(program[j + 1].address)
                    /\ Get(program[j + 1].address) >= 65534

\* `.org 0x10000`, `nop` has been assembled: the nop is at 0x10000
C25_OrgWitness ==
    /\ phase = "done"
    /\ Len(program) = 2
    /\ program[1] = [OrgDirective(65536) EXCEPT !.address = Some(65536)]
    /\ program[2].opcode = "NOP"
    /\ program[2].address = Some(65536)
    /\ Len(Get(binary)) = 65538

\* `.org 0xFFFE`, `nop`, `nop` has been assembled: the program has run past
\* 0xFFFF
C25_RunPastWitness ==
    /\ phase = "done"
    /\ Len(program) = 3
    /\ program[1].opcode = "D_ORG"
    /\ program[2].address = Some(65534)
    /\ program[3].opcode = "NOP"
    /\ program[3].address = Some(65536)

(***************************************************************************)
(* Register specification: the encoder is given instructions whose         *)
(* register operands are any Operand objects, also ones the parser never   *)
(* makes: indices outside r0 .. r6 and operands of another kind.           *)
(***************************************************************************)

\* operands in a register position
RegisterOperands ==
    {Reg(r) : r \in (0 - 1) .. 8} \cup {RegPair(2), Imm(3)}

\* operands in a register pair position
RegisterPairOperands ==
    {RegPair(lo) : lo \in (0 - 1) .. 7} \cup {Reg(2), Imm(1)}

RegisterConditions == {"Z", "SGT"}

AnyRegisters ==
    \/ \E op \in RdOpcodes, rd \in RegisterOperands :
        ParsedAs(Instruction(op, <<rd>>))
    \/ \E op \in RdRsOpcodes, rd \in RegisterOperands,
          rs \in RegisterOperands :
        ParsedAs(Instruction(op, <<rd, rs>>))
    \/ \E op \in Imm8Opcodes \cup Simm4Opcodes, rd \in RegisterOperands :
        ParsedAs(Instruction(op, <<rd, Imm(0 - 1)>>))
    \/ \E rs16 \in RegisterPairOperands : ParsedAs(Instruction("JR", <<rs16>>))
    \/ \E rs \in RegisterOperands : ParsedAs(Instruction("JRO", <<rs>>))
    \/ \E c \in RegisterConditions, rs16 \in RegisterPairOperands :
        ParsedAs(Instruction("BR", <<Cond(c), rs16>>))
    \/ \E c \in RegisterConditions, rs \in RegisterOperands :
        ParsedAs(Instruction("BRO", <<Cond(c), rs>>))
    \/ \E c \in RegisterConditions, rd \in RegisterOperands,
          rs \in RegisterOperands :
        ParsedAs(Instruction("CMV", <<Cond(c), rd, rs>>))
    \/ \E c \in RegisterConditions, rd \in RegisterOperands :
        ParsedAs(Instruction("CLDI", <<Cond(c), rd, Imm(7)>>))

RegistersInit == AnyRegisters /\ EncoderReady

SpecRegisters == RegistersInit /\ [][EncNext]_vars

(***************************************************************************)
(* InstructionEncoder: register fields                                     *)
(***************************************************************************)

\* the operand of instruction i that goes to the rd field, if there is one
RdOperand(i) ==
    IF i.opcode \in RdOpcodes \cup RdRsOpcodes \cup Imm8Opcodes
                        \cup Simm4Opcodes
    THEN Some(i.operands[1])
    ELSE IF i.opcode \in {"CMV", "CLDI"} THEN Some(i.operands[2])
    ELSE None

\* the operand that goes to the rs field
RsOperand(i) ==
    IF i.opcode \in RdRsOpcodes \cup {"BRO"} THEN Some(i.operands[2])
    ELSE IF i.opcode = "JRO" THEN Some(i.operands[1])
    ELSE IF i.opcode = "CMV" THEN Some(i.operands[3])
    ELSE None

\* the operand that goes to the rs16 field
Rs16Operand(i) ==
    IF i.opcode = "JR" THEN Some(i.operands[1])
    ELSE IF i.opcode = "BR" THEN Some(i.operands[2])
    ELSE None

\* o is absent or an operand of the kind with an index in 0 .. top
FitsField(o, kind, top) ==
    IsNone(o) \/ (Get(o).kind = kind /\ Get(o).value \in 0 .. top)

\* o is absent or the field of the word holds its index plus one
FieldHolds(o, field) == IsNone(o) \/ (field = Get(o).value + 1 /\ field # 0)

\* C26: register fields carry the index biased by +1. The encoder accepts
\* an instruction iff every register operand is a register with index in
\* 0 .. 6 and every register pair operand a pair with low index in 0 .. 5;
\* it then stores r + 1 in bits 4..7 for a destination, r + 1 in bits 8..11
\* for a source and p + 1 in bits 8..11 for a pair, so that no register
\* field is 0. Any other index, or an operand of another kind, ends the run
\* in the encoder and the instruction has no encoding.
C26_RegisterFields ==
    EncodeAttempted =>
        LET i == program[1]
            fits == /\ FitsField(RdOperand(i), "Reg", 6)
                    /\ FitsField(RsOperand(i), "Reg", 6)
                    /\ FitsField(Rs16Operand(i), "RegPair", 5)
        IN  IF fits
            THEN /\ EncodeAccepted
                 /\ FieldHolds(RdOperand(i),
                               unpack(Get(i.encoding), 4, 4))
                 /\ FieldHolds(RsOperand(i),
                               unpack(Get(i.encoding), 8, 4))
                 /\ FieldHolds(Rs16Operand(i),
                               unpack(Get(i.encoding), 8, 4))
            ELSE /\ phase = "error"
                 /\ Get(failure).pass = "encode"
                 /\ IsNone(i.encoding)

\* `sub r0, r6` has been encoded with 1 in bits 4..7 and 7 in bits 8..11
C26_Witness ==
    /\ EncodeAttempted
    /\ EncodeAccepted
    /\ program[1].opcode = "SUB"
    /\ program[1].operands = <<Reg(0), Reg(6)>>
    /\ program[1].encoding = Some(3 * 4096 + 7 * 256 + 1 * 16 + 1)

\* `jr` with the pair of low index 5 has been encoded with 6 in bits 8..11
C26_PairWitness ==
    /\ EncodeAttempted
    /\ EncodeAccepted
    /\ program[1].opcode = "JR"
    /\ program[1].operands = <<RegPair(5)>>
    /\ unpack(Get(program[1].encoding), 8, 4) = 6

\* a source register of index 7 has been rejected
C26_RejectedWitness ==
    /\ EncodeAttempted
    /\ program[1].opcode = "MV"
    /\ program[1].operands = <<Reg(3), Reg(7)>>
    /\ phase = "error"
    /\ Get(failure).message = "expected rs register operand"

\* a pair of low index 6 and a register in the place of a pair have been
\* rejected
C26_RejectedPairWitness ==
    /\ EncodeAttempted
    /\ program[1].opcode = "BR"
    /\ program[1].operands[2] \in {RegPair(6), Reg(2)}
    /\ phase = "error"
    /\ Get(failure).message = "expected rs16 register operand"

(***************************************************************************)
(* InstructionEncoder: immediate fields                                    *)
(***************************************************************************)

\* the w bit two's complement pattern of v, for -2^w <= v < 2^w
TwosComplement(v, w) == IF v < 0 THEN v + Pow2(w) ELSE v

\* instruction i with v as its immediate (the last operand)
WithImmediate(i, v) == [i EXCEPT !.operands[Len(i.operands)] = Imm(v)]

\* the word the encoder gives instruction i
WordOf(i) == Get(encode_instruction(EncoderStart, i).encoding)

\* the width of the immediate field of an opcode, 0 where there is none
ImmediateWidth(opcode) ==
    IF opcode \in Imm8Opcodes \cup {"J", "B"} THEN 8
    ELSE IF opcode \in Simm4Opcodes \cup {"CLDI"} THEN 4
    ELSE 0

\* C27: immediate fields hold the two's complement value. For every
\* accepted immediate v the field (bits 8..15 of ldi, addi, andi, ori, testi,
\* j and b, bits 8..11 of addci, xori, cmpi and cldi) holds v for v >= 0 and
\* v + 2^w for v < 0, and every bit outside the field is what it is with the
\* immediate 0; so an 8 bit immediate v in -128 .. -1 gives the word that
\* v + 256 gives.
C27_ImmediateFields ==
    (EncodeAttempted /\ EncodeAccepted
        /\ ImmediateWidth(program[1].opcode) # 0) =>
        LET i == program[1]
            v == ImmediateOf(i)
            w == ImmediateWidth(i.opcode)
            word == Get(i.encoding)
            field == unpack(word, 8, w)
        IN  /\ field = TwosComplement(v, w)
            /\ word - field * 256 = WordOf(WithImmediate(i, 0))
            /\ (i.opcode \in Imm8Opcodes /\ v < 0) =>
                word = WordOf(WithImmediate(i, v + 256))

\* `ldi r2, -128` has been encoded with 0x80 in bits 8..15
C27_Witness ==
    /\ EncodeAttempted
    /\ EncodeAccepted
    /\ program[1].opcode = "LDI"
    /\ program[1].operands = <<Reg(2), Imm(0 - 128)>>
    /\ program[1].encoding = Some(128 * 256 + 3 * 16 + 8)

\* `ldi r2, 128` has the same word
C27_UnsignedWitness ==
    /\ EncodeAttempted
    /\ EncodeAccepted
    /\ program[1].opcode = "LDI"
    /\ program[1].operands = <<Reg(2), Imm(128)>>
    /\ program[1].encoding = Some(128 * 256 + 3 * 16 + 8)

\* `cldi.ne r0, -1` has been encoded with 0xF in bits 8..11
C27_NibbleWitness ==
    /\ EncodeAttempted
    /\ EncodeAccepted
    /\ program[1].opcode = "CLDI"
    /\ program[1].operands = <<Cond("NE"), Reg(0), Imm(0 - 1)>>
    /\ program[1].encoding = Some(5 * 4096 + 15 * 256 + 1 * 16 + 3)

(***************************************************************************)
(* Reach specification: a jump or branch to a label that an .org puts      *)
(* 0 .. MaxReach bytes away, before or after it                            *)
(***************************************************************************)

\* farthest label that is enumerated
MaxReach == 260

ReachPrograms ==
    UNION {{<<LabelDefinition(Start), OrgDirective(n), x>>,
            <<LabelDefinition(Start), Nop, OrgDirective(n), x>>,
            <<x, OrgDirective(n), LabelDefinition(Start)>>,
            <<x, OrgDirective(n), Nop, LabelDefinition(Start), Nop>>} :
           n \in 0 .. MaxReach, x \in {Jump(Start), Branch("NE", Start)}}

SpecReach == Parsed(ReachPrograms, {None}) /\ [][AssemblerNext]_vars

(***************************************************************************)
(* Jump reach: claims                                                      *)
(***************************************************************************)

\* the jumps and branches to a label: program index and operand position
Jumps ==
    {ko \in OffsetOperands(program) :
        program[ko[1] + 1].opcode \in {"J", "B"}}

\* the layout pass has ended
LayoutEnded ==
    \/ phase \in {"evaluate", "encode", "bytes", "write", "done"}
    \/ phase = "error" /\ Get(failure).pass \in {"evaluate", "encode", "bytes"}

\* d = (label address) - (address of the jump itself)
Distance(ko) ==
    Get(BoundTo(program, ko).address) - Get(program[ko[1] + 1].address)

\* C28: jump reach. With d the address of the label minus the address of
\* the jump or branch itself: the encoder accepts the instruction iff
\* -128 <= d <= 127 and then stores d, as an 8 bit two's complement number,
\* in bits 8..15; a run whose d lies outside this range ends in the encoder
\* with an out-of-bounds error and never produces a word for the jump or a
\* binary.
C28_JumpReach ==
    LayoutEnded =>
        \A ko \in Jumps :
            LET i == program[ko[1] + 1]
                d == Distance(ko)
            IN  /\ Encoded(ko[1]) =>
                    /\ d \in (0 - 128) .. 127
                    /\ ~IsNone(i.encoding)
                    /\ unpack(Get(i.encoding), 8, 8) = TwosComplement(d, 8)
                /\ d \notin (0 - 128) .. 127 =>
                    /\ IsNone(i.encoding)
                    /\ IsNone(binary)
                    /\ phase \in {"evaluate", "encode", "error"}
                    /\ phase = "error" =>
                        /\ Get(failure).pass = "encode"
                        /\ Get(failure).message =
                            "immediate value is out of bounds"
                /\ (phase = "error" /\ Get(failure).pass = "encode") =>
                    d \notin (0 - 128) .. 127

\* `j start` 128 bytes before its label has been rejected by the encoder
C28_Witness ==
    /\ phase = "error"
    /\ Get(failure).pass = "encode"
    /\ Len(program) = 3
    /\ program[1].opcode = "J"
    /\ program[3].address = Some(128)
    /\ program[1].operands[1].value.offset = Some(128)
    /\ IsNone(program[1].encoding)

\* `j start` 127 bytes before its label has been assembled
C28_ForwardWitness ==
    /\ phase = "done"
    /\ Len(program) = 3
    /\ program[1].opcode = "J"
    /\ program[3].address = Some(127)
    /\ program[1].encoding = Some(127 * 256 + 9)

\* `b.ne start` 128 bytes after its label has been assembled
C28_BackwardWitness ==
    /\ phase = "done"
    /\ Len(program) = 3
    /\ program[3].opcode = "B"
    /\ program[3].address = Some(128)
    /\ program[3].encoding = Some(128 * 256 + 5 * 16 + 9)

\* `b.ne start` 130 bytes after its label has been rejected
C28_BackwardRejectedWitness ==
    /\ phase = "error"
    /\ Get(failure).pass = "encode"
    /\ Len(program) = 4
    /\ program[4].opcode = "B"
    /\ program[4].address = Some(130)
    /\ program[4].operands[2].value.offset = Some(0 - 130)

(***************************************************************************)
(* InstructionEncoder: words of different mnemonics                        *)
(***************************************************************************)

Opcodes ==
    {"NOP", "HALT", "JR", "JRO", "J", "BR", "BRO", "B", "CMV", "CLDI"}
    \cup RdOpcodes \cup RdRsOpcodes \cup Imm8Opcodes \cup Simm4Opcodes

\* the operands of each kind whose field is f
RegsAt(f) == {Reg(r) : r \in {r \in Registers : r + 1 = f}}

PairsAt(f) == {RegPair(lo) : lo \in {lo \in RegisterPairs : lo + 1 = f}}

CondsAt(f) == {Cond(c) : c \in {c \in Condition : CONDITION_ENCODING[c] = f}}

\* the immediates of -2^(w-1) .. 2^(w-1) - 1 with the w bit pattern f
SignedAt(f, w) ==
    {Imm(v) : v \in {v \in (0 - Pow2(w - 1)) .. (Pow2(w - 1) - 1) :
                        TwosComplement(v, w) = f}}

\* of -128 .. 255
Imm8At(f) == SignedAt(f, 8) \cup {Imm(f)}

\* the instructions of an opcode whose operands are those the fields of the
\* word stand for
CandidatesFor(op, word) ==
    LET f1 == unpack(word, 4, 4)
        f2 == unpack(word, 8, 4)
        f3 == unpack(word, 12, 4)
        hi == unpack(word, 8, 8)
    IN  IF op \in {"NOP", "HALT"} THEN {Instruction(op, << >>)}
        ELSE IF op \in RdOpcodes
        THEN {Instruction(op, <<rd>>) : rd \in RegsAt(f1)}
        ELSE IF op \in RdRsOpcodes
        THEN {Instruction(op, <<rd, rs>>) : rd \in RegsAt(f1), rs \in RegsAt(f2)}
        ELSE IF op \in Imm8Opcodes
        THEN {Instruction(op, <<rd, v>>) : rd \in RegsAt(f1), v \in Imm8At(hi)}
        ELSE IF op \in Simm4Opcodes
        THEN {Instruction(op, <<rd, v>>) :
                rd \in RegsAt(f1), v \in SignedAt(f2, 4)}
        ELSE IF op = "JR" THEN {Instruction(op, <<p>>) : p \in PairsAt(f2)}
        ELSE IF op = "JRO" THEN {Instruction(op, <<rs>>) : rs \in RegsAt(f2)}
        ELSE IF op = "J" THEN {Instruction(op, <<v>>) : v \in SignedAt(hi, 8)}
        ELSE IF op = "BR"
        THEN {Instruction(op, <<c, p>>) : c \in CondsAt(f1), p \in PairsAt(f2)}
        ELSE IF op = "BRO"
        THEN {Instruction(op, <<c, rs>>) : c \in CondsAt(f1), rs \in RegsAt(f2)}
        ELSE IF op = "B"
        THEN {Instruction(op, <<c, v>>) :
                c \in CondsAt(f1), v \in SignedAt(hi, 8)}
        ELSE IF op = "CMV"
        THEN {Instruction(op, <<c, rd, rs>>) :
                c \in CondsAt(f3), rd \in RegsAt(f1), rs \in RegsAt(f2)}
        ELSE {Instruction(op, <<c, rd, v>>) :
                c \in CondsAt(f3), rd \in RegsAt(f1), v \in SignedAt(f2, 4)}

\* the instructions of opcode op that the encoder accepts with this word
EncodedAs(op, word) ==
    {i \in CandidatesFor(op, word) :
        LET e == encode_instruction(EncoderStart, i)
        IN  IsNone(e.error) /\ e.encoding = Some(word)}

\* C29: encodings of different mnemonics do not collide. An instruction the
\* encoder has accepted is among the instructions of its opcode that the
\* fields of its word stand for, and no instruction of another opcode that
\* the fields stand for has that word, except that `halt` and `j` with
\* displacement 0 both have 0x0009. So `nop` alone has the word 0, and, no
\* condition having the code 0, no b, br or bro has the word of a j, jr or
\* jro.
C29_NoCollision ==
    /\ \A c \in Condition : CONDITION_ENCODING[c] # 0
    /\ (EncodeAttempted /\ EncodeAccepted) =>
        LET i == program[1]
            word == Get(i.encoding)
        IN  /\ \E c \in EncodedAs(i.opcode, word) : c.operands = i.operands
            /\ \A op \in Opcodes \ {i.opcode} :
                EncodedAs(op, word) # {} =>
                    /\ {op, i.opcode} = {"HALT", "J"}
                    /\ word = 9
            /\ word = 0 => i.opcode = "NOP"
            /\ i.opcode \in {"B", "BR", "BRO"} =>
                /\ unpack(word, 4, 4) # 0
                /\ \A op \in {"J", "JR", "JRO"} : EncodedAs(op, word) = {}

\* `j +0` has been encoded as 0x0009, the word of `halt`
C29_Witness ==
    /\ EncodeAttempted
    /\ EncodeAccepted
    /\ program[1].opcode = "J"
    /\ program[1].operands = <<Imm(0)>>
    /\ program[1].encoding = Some(9)
    /\ EncodedAs("HALT", 9) # {}

\* `bro.c r3` has been encoded: its word differs from that of `jro r3` in
\* the condition nibble only
C29_BranchWitness ==
    /\ EncodeAttempted
    /\ EncodeAccepted
    /\ program[1].opcode = "BRO"
    /\ program[1].operands = <<Cond("C"), Reg(3)>>
    /\ program[1].encoding = Some(2 * 4096 + 4 * 256 + 2 * 16)
    /\ EncodedAs("JRO", 2 * 4096 + 4 * 256) # {}

\* `nop` has been encoded as 0
C29_NopWitness ==
    /\ EncodeAttempted
    /\ EncodeAccepted
    /\ program[1].opcode = "NOP"
    /\ program[1].encoding = Some(0)

(***************************************************************************)
(* Conditional moves: encoder and decode table                             *)
(***************************************************************************)

\* C30: condition agreement for conditional moves. For every condition
\* name c and all operands, the word the encoder produces for `cmv.c` or
\* `cldi.c` decodes to the functional unit ALU, flags mode R, destination
\* mode RW, the operation code 0b10000 | CONDITION_ENCODING[c], and the
\* source mode R8 for cmv and Imm4 for cldi.
C30_ConditionalMoveAgreement ==
    (~IsNone(decoded) /\ program[1].opcode \in {"CMV", "CLDI"}) =>
        LET d == Get(decoded)
            c == program[1].operands[1].value
        IN  /\ d.fuid = FU.ALU
            /\ d.flags = FlagsMode.R
            /\ d.rd = RdMode.RW
            /\ d.fuop = 16 + CONDITION_ENCODING[c]
            /\ d.fuop \in 18 .. 31
            /\ d.rs = IF program[1].opcode = "CMV" THEN RsMode.R8
                      ELSE RsMode.Imm4

\* `cmv.sle r4, r1` has been encoded and decoded: operation 0b11110
C30_Witness ==
    /\ ~IsNone(decoded)
    /\ program[1].opcode = "CMV"
    /\ program[1].operands = <<Cond("SLE"), Reg(4), Reg(1)>>
    /\ program[1].encoding = Some(14 * 4096 + 2 * 256 + 5 * 16 + 2)
    /\ Get(decoded).fuop = 30
    /\ Get(decoded).rs = RsMode.R8

\* `cldi.c r0, -8` has been encoded and decoded: operation 0b10010
C30_ImmediateWitness ==
    /\ ~IsNone(decoded)
    /\ program[1].opcode = "CLDI"
    /\ program[1].operands = <<Cond("C"), Reg(0), Imm(0 - 8)>>
    /\ Get(decoded).fuop = 18
    /\ Get(decoded).rs = RsMode.Imm4

====
